---- MODULE Spec2Model ----
(***************************************************************************)
(* Model of scatter's concurrent SSH execution engine:                     *)
(*   scatter/ssh.py  run_on_host, execute_on_hosts                         *)
(*   scatter/cli.py  _run_all, _run_one                                    *)
(* One task per host runs run_on_host under a shared asyncio.Semaphore.    *)
(* Tasks are asyncio coroutines: the code between two awaits is one        *)
(* atomic step, so there is one action per await boundary.                 *)
(***************************************************************************)
EXTENDS Integers, Sequences, FiniteSets, TLC

(* ------------------------------ bounds --------------------------------- *)
MaxHosts == 2
MaxLimit == 2
MaxRetry == 2
MaxFaults == 2
MaxClock == 2

(* The inventory the input host lists are prefixes of; "h1" occurs twice.  *)
HostPool == <<"h1", "h2", "h1", "h3">>

(* Optional values: None is the empty tuple, Some(x) a one-element tuple.  *)
None == <<>>
Some(x) == <<x>>

(* --------------------------- exceptions -------------------------------- *)
(* Classes an exception is an instance of (its own class and its bases).   *)
(* asyncssh.TimeoutError derives from asyncssh.ProcessError, which derives *)
(* from asyncssh.Error; it also derives from asyncio.TimeoutError.         *)
Bases(name) ==
    CASE name = "OSError"        -> {"OSError", "Exception", "BaseException"}
      [] name = "TimeoutError"   -> {"TimeoutError", "ProcessError", "Error",
                                     "Exception", "BaseException"}
      [] name = "ValueError"     -> {"ValueError", "Exception", "BaseException"}
      [] name = "RuntimeError"   -> {"RuntimeError", "Exception", "BaseException"}
      [] name = "CancelledError" -> {"CancelledError", "BaseException"}

IsInstance(exc, classes) == Bases(exc.name) \cap classes # {}

Exc(name, msg) == [name |-> name, msg |-> msg]

CancelledError == Exc("CancelledError", "")

(* retry=retry_if_exception_type((asyncssh.Error, OSError))                *)
RetryTypes == {"Error", "OSError"}

(* What asyncssh.connect can do: return a connection or raise.             *)
ConnectOutcomes ==
    { [kind |-> "ok"],
      [kind |-> "raise", exc |-> Exc("OSError", "boom")],
      [kind |-> "raise", exc |-> Exc("ValueError", "bad")] }

(* What conn.run(check=False, timeout=command_timeout) can do: return a    *)
(* completed process (any exit status, check=False) or raise; on expiry of *)
(* the timeout it raises asyncssh.TimeoutError.                            *)
RunOutcomes ==
    { [kind |-> "completed", exit_status |-> 0, stdout |-> Some("out"), stderr |-> None],
      [kind |-> "completed", exit_status |-> 1, stdout |-> None, stderr |-> Some("err")],
      [kind |-> "raise", exc |-> Exc("TimeoutError", "timed out")],
      [kind |-> "raise", exc |-> Exc("RuntimeError", "fault")] }

(* ------------------------------ state ---------------------------------- *)
(* What conn.close() / conn.wait_closed() can do (ssh.py:137-138).         *)
CloseOutcomes ==
    { [kind |-> "ok"],
      [kind |-> "raise", exc |-> Exc("OSError", "close failed")] }

VARIABLES
    hosts,          \* input sequence of hosts
    limit,          \* options.limit
    retry_attempts, \* options.retry_attempts
    progress,       \* cli: progress and not quiet (as_completed collection)
    pc,             \* per task: position in run_on_host
    sem_value,      \* semaphore._value
    waiters,        \* semaphore._waiters, in arrival order (task indices)
    woken,          \* waiters whose future has been set by _wake_up_next
    attempts,       \* per task: number of _connect calls made
    conn,           \* per task: "none" | "open" | "closed" (current connection)
    opened,         \* per task: connections established
    closes,         \* per task: conn.close() calls
    pending,        \* per task: what the attempt body holds while closing
    connLog,        \* per task: outcomes of its _connect calls
    runLog,         \* per task: outcomes of its _run_command calls
    closeLog,       \* per task: outcomes of its close() / wait_closed() calls
    acquired,       \* per task: successful semaphore acquires
    released,       \* per task: semaphore releases
    result,         \* per task: None or Some(ExecResult) returned by the task
    order,          \* task indices in completion order
    waits,          \* per task: the backoff sleeps made, in half seconds
    results,        \* the list the collector is building / has returned
    returned,       \* the collector has returned `results`
    cancelling,     \* the batch has been cancelled from outside
    now,            \* time.perf_counter(), in ticks
    started_at,     \* per task: `started` taken on entry to run_on_host
    dry_run,        \* cli: --dry-run
    exit_code,      \* cli: None while running, Some(code) once typer.Exit is raised
    saved,          \* cli: None, or Some(the writes made under --save-dir)
    log_records,    \* cli: None, or Some(the records written to --log-file)
    out_opts,       \* cli: None until read, then Some([save_dir, log_file]) (given or not)
    cli,            \* cli: the parsed command-line arguments
    defaults,       \* cli: inv.defaults
    h,              \* cli: the loop variable of `for h in inv.hosts`
    host_specs,     \* cli: the (host, command, options) list built so far
    connect_calls,  \* the keyword arguments of the asyncssh.connect calls made
    opt_kwargs,     \* None, or the keyword arguments a caller gives to ExecOptions
    raised          \* None, or Some(name of the exception that call raised)

vars == <<hosts, limit, retry_attempts, progress, pc, sem_value, waiters, woken,
          attempts, conn, opened, closes, pending, connLog, runLog, closeLog, acquired,
          released, result, order, waits, results, returned, cancelling, now,
          started_at, dry_run, exit_code, saved, log_records, out_opts, cli,
          defaults, h, host_specs, connect_calls, opt_kwargs, raised>>

(* the inputs of a batch, fixed once it starts                             *)
inputVars == <<hosts, limit, retry_attempts, progress>>

(* what the command-line front end owns                                    *)
cliVars == <<dry_run, exit_code, saved, log_records, out_opts, cli, defaults,
             h, host_specs, connect_calls, opt_kwargs, raised>>

(* what a direct caller of ssh.py owns                                     *)
credVars == <<opt_kwargs, raised>>

N == Len(hosts)
Tasks == 1..N

HostLists == {SubSeq(HostPool, 1, n) : n \in 0..MaxHosts}

Max(a, b) == IF a >= b THEN a ELSE b

(* ExecResult (ssh.py:27-50)                                               *)
ExecResult(host, exit_status, stdout, stderr, ok, started, ended, error) ==
    [host |-> host, exit_status |-> exit_status, stdout |-> stdout,
     stderr |-> stderr, ok |-> ok, started_at |-> started, ended_at |-> ended,
     error |-> error]

(* ExecResult.duration (ssh.py:48-50)                                      *)
Duration(r) == r.ended_at - r.started_at

(* `x or ""` on an optional string                                         *)
OrEmpty(s) == IF s = None \/ s = Some("") THEN "" ELSE s[1]

(* the error text without the exception's class name: str(exc)            *)
ErrorText_MessageOnly(exc) == exc.msg

(* f"{type(exc).__name__}: {exc}"                                          *)
ErrorText(exc) == exc.name \o ": " \o exc.msg

(* the comparison of the exit status the wrong way round                  *)
SuccessResult_OkInverted(host, completed, started, ended) ==
    [host |-> host, exit_status |-> Some(completed.exit_status),
     stdout |-> OrEmpty(completed.stdout), stderr |-> OrEmpty(completed.stderr),
     ok |-> (completed.exit_status # 0), started_at |-> started,
     ended_at |-> ended, error |-> None]

(* ok taken from "the command ran" instead of from the exit status        *)
SuccessResult_OkIfRan(host, completed, started, ended) ==
    [host |-> host, exit_status |-> Some(completed.exit_status),
     stdout |-> OrEmpty(completed.stdout), stderr |-> OrEmpty(completed.stderr),
     ok |-> TRUE, started_at |-> started, ended_at |-> ended, error |-> None]

(* a non-zero exit status reported through the error field as well        *)
SuccessResult_ErrorOnNonZero(host, completed, started, ended) ==
    ExecResult(host, Some(completed.exit_status), OrEmpty(completed.stdout),
               OrEmpty(completed.stderr), completed.exit_status = 0,
               started, ended,
               IF completed.exit_status = 0 THEN None ELSE Some("exit status"))

(* The ExecResult built from a completed process (ssh.py:126-134)          *)
SuccessResult(host, completed, started, ended) ==
    ExecResult(host, Some(completed.exit_status), OrEmpty(completed.stdout),
               OrEmpty(completed.stderr), completed.exit_status = 0,
               started, ended, None)

(* failures reported with a conventional exit status of -1                 *)
FailureResult_MinusOne(host, exc, started, ended) ==
    ExecResult(host, Some(-1), "", "", FALSE, started, ended, Some(ErrorText(exc)))

(* the two timestamps of the failure Result the wrong way round            *)
FailureResult_SwappedTimes(host, exc, started, ended) ==
    ExecResult(host, None, "", "", FALSE, ended, started, Some(ErrorText(exc)))

(* The ExecResult built by the except handler (ssh.py:141-151)             *)
FailureResult(host, exc, started, ended) ==
    ExecResult(host, None, "", "", FALSE, started, ended, Some(ErrorText(exc)))

(* wait=wait_exponential(multiplier=0.5, min=0.5, max=5) (ssh.py:118), in  *)
(* half seconds.                                                           *)
WaitMultiplier == 1
WaitMin == 1
WaitMax == 10

Min(a, b) == IF a <= b THEN a ELSE b

(* tenacity's wait_exponential after attempt number n:                     *)
(* max(max(0, min), min(multiplier * 2 ** (n - 1), max))                   *)
WaitExponential(n) ==
    Max(Max(0, WaitMin), Min(WaitMultiplier * 2 ^ (n - 1), WaitMax))

(* a fixed budget of attempts, whatever retry_attempts says                *)
MaxAttempts_IgnoresOption == MaxRetry + 1

(* retry_attempts read as the number of retries after the first attempt    *)
MaxAttempts_PlusOne == Max(1, retry_attempts) + 1

(* stop=stop_after_attempt(max(1, options.retry_attempts))                 *)
MaxAttempts == Max(1, retry_attempts)

(* retry=retry_if_exception_type(Exception): every failure is retried      *)
ShouldRetry_AnyException(i, exc) ==
    /\ IsInstance(exc, {"Exception"})
    /\ attempts[i] < MaxAttempts

(* a stop condition that gives up one attempt early                        *)
ShouldRetry_OffByOne(i, exc) ==
    IsInstance(exc, RetryTypes) /\ attempts[i] + 1 < Max(1, retry_attempts)

(* tenacity's decision after an attempt raised exc: retry iff the          *)
(* exception matches the retry filter and the stop condition is not met.   *)
ShouldRetry(i, exc) ==
    IsInstance(exc, RetryTypes) /\ attempts[i] < MaxAttempts

(* a handler that only catches the transport errors                       *)
CaughtByHandler_TransportOnly(exc) == IsInstance(exc, RetryTypes)

(* `except Exception` (ssh.py:141)                                         *)
CaughtByHandler(exc) == IsInstance(exc, {"Exception"})

(* The engine driven directly (execute_on_hosts): no front end.            *)
NoCli ==
    /\ dry_run = FALSE
    /\ exit_code = None
    /\ saved = None
    /\ log_records = None
    /\ out_opts = None
    /\ cli = None
    /\ defaults = None
    /\ h = None
    /\ host_specs = <<>>
    /\ connect_calls = <<>>
    /\ opt_kwargs = None
    /\ raised = None

Init ==
    /\ hosts \in HostLists
    /\ limit \in 1..MaxLimit
    /\ retry_attempts \in 0..MaxRetry
    /\ progress \in BOOLEAN
    /\ pc = [i \in Tasks |-> "start"]
    /\ sem_value = limit
    /\ waiters = <<>>
    /\ woken = {}
    /\ attempts = [i \in Tasks |-> 0]
    /\ conn = [i \in Tasks |-> "none"]
    /\ opened = [i \in Tasks |-> 0]
    /\ closes = [i \in Tasks |-> 0]
    /\ pending = [i \in Tasks |-> None]
    /\ connLog = [i \in Tasks |-> <<>>]
    /\ runLog = [i \in Tasks |-> <<>>]
    /\ closeLog = [i \in Tasks |-> <<>>]
    /\ acquired = [i \in Tasks |-> 0]
    /\ released = [i \in Tasks |-> 0]
    /\ result = [i \in Tasks |-> None]
    /\ order = <<>>
    /\ waits = [i \in Tasks |-> <<>>]
    /\ results = <<>>
    /\ returned = FALSE
    /\ cancelling = FALSE
    /\ now = 0
    /\ started_at = [i \in Tasks |-> 0]
    /\ NoCli


(* Number of faults (raised exceptions) the transport has injected so far; *)
(* a batch sees at most MaxFaults of them.                                 *)
RECURSIVE Raises(_)
Raises(log) ==
    IF log = <<>> THEN 0
    ELSE (IF log[1].kind = "raise" THEN 1 ELSE 0) + Raises(Tail(log))

RECURSIVE SumOver(_, _)
SumOver(f, n) == IF n = 0 THEN 0 ELSE f[n] + SumOver(f, n - 1)

Faults ==
    SumOver([i \in Tasks |-> Raises(connLog[i]) + Raises(runLog[i])
                                + Raises(closeLog[i])], N)

MayFail(o) == o.kind = "raise" => Faults < MaxFaults

(* ---------------------- asyncio.Semaphore ------------------------------ *)
(* locked() that only looks at the queue when the counter is zero          *)
SemLocked_QueueOnly == sem_value = 0 /\ waiters # <<>>

(* Semaphore.locked(): no free slot, or somebody is already queued.        *)
SemLocked == sem_value = 0 \/ waiters # <<>>

RemoveWaiter(q, i) == SelectSeq(q, LAMBDA t : t # i)

(* a release that frees the slot but wakes nobody                         *)
WakeUpNext_NoWake(v, q, w) == [value |-> v, woken |-> w]

(* Semaphore._wake_up_next() applied to counter v, queue q, woken set w:   *)
(* the first waiter whose future is not done takes a slot.                 *)
WakeUpNext(v, q, w) ==
    LET cand == {k \in 1..Len(q) : q[k] \notin w}
    IN IF cand = {} THEN [value |-> v, woken |-> w]
       ELSE LET first == CHOOSE k \in cand : \A m \in cand : k <= m
            IN [value |-> v - 1, woken |-> w \cup {q[first]}]

(* Semaphore.release(): increment, then wake the next waiter.              *)
SemRelease == WakeUpNext(sem_value + 1, waiters, woken)

(* --------------------------- run_on_host ------------------------------- *)
(* acquire()/release() by hand, the release only on the return paths       *)
Leave_ReleaseOnReturn(i, newpc, res) ==
    /\ pc' = [pc EXCEPT ![i] = newpc]
    /\ result' = [result EXCEPT ![i] = res]
    /\ IF newpc = "done"
       THEN /\ released' = [released EXCEPT ![i] = @ + 1]
            /\ sem_value' = WakeUpNext(sem_value + 1, waiters, woken).value
            /\ woken' = WakeUpNext(sem_value + 1, waiters, woken).woken
            /\ order' = Append(order, i)
       ELSE UNCHANGED <<released, sem_value, woken, order>>
    /\ UNCHANGED waits

(* the slot released on the success path only, not in an exit handler      *)
Leave_NoReleaseOnFailure(i, newpc, res) ==
    /\ pc' = [pc EXCEPT ![i] = newpc]
    /\ result' = [result EXCEPT ![i] = res]
    /\ IF res # None /\ res[1].error = None
       THEN /\ released' = [released EXCEPT ![i] = @ + 1]
            /\ sem_value' = SemRelease.value
            /\ woken' = SemRelease.woken
       ELSE UNCHANGED <<released, sem_value, woken>>
    /\ order' = IF newpc = "done" THEN Append(order, i) ELSE order
    /\ UNCHANGED waits

(* The task leaves `async with semaphore` (ssh.py:114): the slot is        *)
(* released and the task ends, with a Result (newpc = "done") or with a    *)
(* propagating CancelledError (newpc = "cancelled", res = None).           *)
Leave(i, newpc, res) ==
    /\ pc' = [pc EXCEPT ![i] = newpc]
    /\ result' = [result EXCEPT ![i] = res]
    /\ released' = [released EXCEPT ![i] = @ + 1]
    /\ sem_value' = SemRelease.value
    /\ woken' = SemRelease.woken
    /\ order' = IF newpc = "done" THEN Append(order, i) ELSE order
    /\ UNCHANGED waits

(* the retry loop outside `async with semaphore`: the slot is given back   *)
(* for the time of the backoff sleep                                       *)
AttemptFailed_ReleaseForBackoff(i, exc) ==
    IF ShouldRetry(i, exc)
    THEN /\ pc' = [pc EXCEPT ![i] = "backoff"]
         /\ waits' = [waits EXCEPT ![i] = Append(@, WaitExponential(attempts[i]))]
         /\ released' = [released EXCEPT ![i] = @ + 1]
         /\ sem_value' = SemRelease.value
         /\ woken' = SemRelease.woken
         /\ UNCHANGED <<result, order>>
    ELSE IF CaughtByHandler(exc)
         THEN Leave(i, "done", Some(FailureResult(hosts[i], exc, started_at[i], now)))
         ELSE Leave(i, "cancelled", None)

(* run_on_host without its except handler: the re-raised exception leaves  *)
(* the task                                                                *)
AttemptFailed_NoHandler(i, exc) ==
    IF IsInstance(exc, RetryTypes) /\ attempts[i] < Max(1, retry_attempts)
    THEN /\ pc' = [pc EXCEPT ![i] = "backoff"]
         /\ waits' = [waits EXCEPT ![i] = Append(@, WaitExponential(attempts[i]))]
         /\ UNCHANGED <<result, released, sem_value, woken, order>>
    ELSE /\ pc' = [pc EXCEPT ![i] = "cancelled"]
         /\ result' = [result EXCEPT ![i] = None]
         /\ released' = [released EXCEPT ![i] = @ + 1]
         /\ sem_value' = WakeUpNext(sem_value + 1, waiters, woken).value
         /\ woken' = WakeUpNext(sem_value + 1, waiters, woken).woken
         /\ order' = order
         /\ waits' = waits

(* An exception left the `with attempt:` body (ssh.py:122): tenacity       *)
(* either sleeps before the next attempt, or re-raises it (reraise=True);  *)
(* a re-raised Exception is turned into a failure Result by the handler.   *)
AttemptFailed(i, exc) ==
    IF ShouldRetry(i, exc)
    THEN /\ pc' = [pc EXCEPT ![i] = "backoff"]
         /\ waits' = [waits EXCEPT ![i] = Append(@, WaitExponential(attempts[i]))]
         /\ UNCHANGED <<result, released, sem_value, woken, order>>
    ELSE IF CaughtByHandler(exc)
         THEN Leave(i, "done", Some(FailureResult(hosts[i], exc, started_at[i], now)))
         ELSE Leave(i, "cancelled", None)

(* a hand-written `for attempt in range(retry_attempts)` loop: with a      *)
(* budget of zero or less the body is never entered                        *)
Start_RangeLoop(i) ==
    /\ pc[i] = "start"
    /\ started_at' = [started_at EXCEPT ![i] = now]
    /\ IF ~SemLocked
       THEN IF retry_attempts <= 0
            THEN /\ acquired' = [acquired EXCEPT ![i] = @ + 1]
                 /\ released' = [released EXCEPT ![i] = @ + 1]
                 /\ result' = [result EXCEPT ![i] =
                        Some(FailureResult(hosts[i], Exc("RuntimeError", "no attempts"),
                                           now, now))]
                 /\ order' = Append(order, i)
                 /\ pc' = [pc EXCEPT ![i] = "done"]
                 /\ UNCHANGED <<sem_value, attempts, waiters>>
            ELSE /\ sem_value' = sem_value - 1
                 /\ acquired' = [acquired EXCEPT ![i] = @ + 1]
                 /\ attempts' = [attempts EXCEPT ![i] = @ + 1]
                 /\ pc' = [pc EXCEPT ![i] = "connect"]
                 /\ UNCHANGED <<waiters, released, result, order>>
       ELSE /\ waiters' = Append(waiters, i)
            /\ pc' = [pc EXCEPT ![i] = "waiting"]
            /\ UNCHANGED <<sem_value, acquired, attempts, released, result, order>>
    /\ UNCHANGED <<cliVars, inputVars, now, woken, conn, opened,
                   closes, pending, connLog, runLog, closeLog, waits,
                   results, returned, cancelling>>

(* The task's first step: `started = time.perf_counter()` (ssh.py:112),    *)
(* then `async with semaphore` -> acquire(); with a free slot it goes      *)
(* straight on to the first _connect, else it queues.                      *)
Start(i) ==
    /\ pc[i] = "start"
    /\ started_at' = [started_at EXCEPT ![i] = now]
    /\ IF ~SemLocked
       THEN /\ sem_value' = sem_value - 1
            /\ acquired' = [acquired EXCEPT ![i] = @ + 1]
            /\ attempts' = [attempts EXCEPT ![i] = @ + 1]
            /\ pc' = [pc EXCEPT ![i] = "connect"]
            /\ UNCHANGED waiters
       ELSE /\ waiters' = Append(waiters, i)
            /\ pc' = [pc EXCEPT ![i] = "waiting"]
            /\ UNCHANGED <<sem_value, acquired, attempts>>
    /\ UNCHANGED <<cliVars, inputVars, now, woken, conn, opened,
                   closes, pending, connLog, runLog, closeLog, released, result, order, waits,
                   results, returned, cancelling>>

(* `started` taken once the slot is held instead of before acquire()       *)
Resume_StampsOnAcquire(i) ==
    /\ pc[i] = "waiting"
    /\ i \in woken
    /\ LET q == RemoveWaiter(waiters, i)
           w == woken \ {i}
           s == IF sem_value > 0 THEN WakeUpNext(sem_value, q, w)
                ELSE [value |-> sem_value, woken |-> w]
       IN /\ waiters' = q
          /\ sem_value' = s.value
          /\ woken' = s.woken
    /\ acquired' = [acquired EXCEPT ![i] = @ + 1]
    /\ attempts' = [attempts EXCEPT ![i] = @ + 1]
    /\ started_at' = [started_at EXCEPT ![i] = now]
    /\ pc' = [pc EXCEPT ![i] = "connect"]
    /\ UNCHANGED <<cliVars, inputVars, now, conn, opened, closes,
                   pending, connLog, runLog, closeLog, released, result, order, waits, results,
                   returned, cancelling>>

(* A woken waiter resumes inside acquire(): it leaves the queue, passes on *)
(* a spare slot if there is one, and goes on to the first _connect.        *)
Resume(i) ==
    /\ pc[i] = "waiting"
    /\ i \in woken
    /\ LET q == RemoveWaiter(waiters, i)
           w == woken \ {i}
           s == IF sem_value > 0 THEN WakeUpNext(sem_value, q, w)
                ELSE [value |-> sem_value, woken |-> w]
       IN /\ waiters' = q
          /\ sem_value' = s.value
          /\ woken' = s.woken
    /\ acquired' = [acquired EXCEPT ![i] = @ + 1]
    /\ attempts' = [attempts EXCEPT ![i] = @ + 1]
    /\ pc' = [pc EXCEPT ![i] = "connect"]
    /\ UNCHANGED <<cliVars, inputVars, now, started_at, conn, opened, closes,
                   pending, connLog, runLog, closeLog, released, result, order, waits, results,
                   returned, cancelling>>

(* one connection variable shared by all tasks instead of a local of each  *)
ConnectDone_SharedConn(i, o) ==
    /\ pc[i] = "connect"
    /\ MayFail(o)
    /\ connLog' = [connLog EXCEPT ![i] = Append(@, o)]
    /\ IF o.kind = "ok"
       THEN /\ conn' = [j \in Tasks |-> "open"]
            /\ opened' = [opened EXCEPT ![i] = @ + 1]
            /\ pc' = [pc EXCEPT ![i] = "run"]
            /\ UNCHANGED <<result, released, sem_value, woken, order, waits>>
       ELSE /\ AttemptFailed(i, o.exc)
            /\ UNCHANGED <<conn, opened>>
    /\ UNCHANGED <<cliVars, inputVars, now, started_at, waiters, attempts,
                   closes, pending, runLog, closeLog, acquired, results, returned,
                   cancelling>>

(* `conn = await _connect(host, options)` completes (ssh.py:123).          *)
ConnectDone(i, o) ==
    /\ pc[i] = "connect"
    /\ MayFail(o)
    /\ connLog' = [connLog EXCEPT ![i] = Append(@, o)]
    /\ IF o.kind = "ok"
       THEN /\ conn' = [conn EXCEPT ![i] = "open"]
            /\ opened' = [opened EXCEPT ![i] = @ + 1]
            /\ pc' = [pc EXCEPT ![i] = "run"]
            /\ UNCHANGED <<result, released, sem_value, woken, order, waits>>
       ELSE /\ AttemptFailed(i, o.exc)
            /\ UNCHANGED <<conn, opened>>
    /\ UNCHANGED <<cliVars, inputVars, now, started_at, waiters, attempts,
                   closes, pending, runLog, closeLog, acquired, results, returned,
                   cancelling>>

(* no finally block: a run that raises leaves the attempt at once, its     *)
(* connection still open                                                   *)
RunDone_NoCloseOnError(i, o) ==
    /\ pc[i] = "run"
    /\ MayFail(o)
    /\ runLog' = [runLog EXCEPT ![i] = Append(@, o)]
    /\ IF o.kind = "completed"
       THEN /\ pending' = [pending EXCEPT ![i] =
                   Some([kind |-> "return",
                         value |-> SuccessResult(hosts[i], o, started_at[i], now)])]
            /\ conn' = [conn EXCEPT ![i] = "closed"]
            /\ closes' = [closes EXCEPT ![i] = @ + 1]
            /\ pc' = [pc EXCEPT ![i] = "closing"]
            /\ UNCHANGED <<sem_value, woken, released, result, order, waits>>
       ELSE /\ AttemptFailed(i, o.exc)
            /\ UNCHANGED <<pending, conn, closes>>
    /\ UNCHANGED <<cliVars, inputVars, now, started_at, waiters, attempts,
                   opened, connLog, closeLog, acquired, results, returned, cancelling>>

(* the close after the run instead of in a finally block: skipped when     *)
(* the run raises                                                          *)
RunDone_CloseAfterRun(i, o) ==
    /\ pc[i] = "run"
    /\ MayFail(o)
    /\ runLog' = [runLog EXCEPT ![i] = Append(@, o)]
    /\ pending' = [pending EXCEPT ![i] =
                      IF o.kind = "completed"
                      THEN Some([kind |-> "return", value |-> SuccessResult(hosts[i], o, started_at[i], now)])
                      ELSE Some([kind |-> "raise", exc |-> o.exc])]
    /\ conn' = [conn EXCEPT ![i] = IF o.kind = "completed" THEN "closed" ELSE @]
    /\ closes' = [closes EXCEPT ![i] = IF o.kind = "completed" THEN @ + 1 ELSE @]
    /\ pc' = [pc EXCEPT ![i] = "closing"]
    /\ UNCHANGED <<cliVars, inputVars, now, started_at, sem_value, waiters,
                   woken, attempts, opened, connLog, closeLog, acquired, released, result,
                   order, waits, results, returned, cancelling>>

(* `await _run_command(...)` completes (ssh.py:125): the Result is built   *)
(* or the exception propagates, and the finally block calls conn.close()   *)
(* and awaits conn.wait_closed() (ssh.py:135-138).                         *)
RunDone(i, o) ==
    /\ pc[i] = "run"
    /\ MayFail(o)
    /\ runLog' = [runLog EXCEPT ![i] = Append(@, o)]
    /\ pending' = [pending EXCEPT ![i] =
                      IF o.kind = "completed"
                      THEN Some([kind |-> "return", value |-> SuccessResult(hosts[i], o, started_at[i], now)])
                      ELSE Some([kind |-> "raise", exc |-> o.exc])]
    /\ conn' = [conn EXCEPT ![i] = "closed"]
    /\ closes' = [closes EXCEPT ![i] = @ + 1]
    /\ pc' = [pc EXCEPT ![i] = "closing"]
    /\ UNCHANGED <<cliVars, inputVars, now, started_at, sem_value, waiters,
                   woken, attempts, opened, connLog, closeLog, acquired, released, result,
                   order, waits, results, returned, cancelling>>

(* ended_at taken again when the attempt body is left, after the close     *)
CloseDone_StampAtExit(i, c) ==
    /\ pc[i] = "closing"
    /\ MayFail(c)
    /\ closeLog' = [closeLog EXCEPT ![i] = Append(@, c)]
    /\ pending' = [pending EXCEPT ![i] = None]
    /\ IF pending[i][1].kind = "return"
       THEN Leave(i, "done", Some([pending[i][1].value EXCEPT !.ended_at = now]))
       ELSE AttemptFailed(i, pending[i][1].exc)
    /\ UNCHANGED <<cliVars, inputVars, now, started_at, waiters, attempts,
                   conn, opened, closes, connLog, runLog, acquired, results,
                   returned, cancelling>>

(* an exception raised while closing takes the place of whatever the      *)
(* attempt body held                                                       *)
CloseDone_Propagates(i, c) ==
    /\ pc[i] = "closing"
    /\ MayFail(c)
    /\ closeLog' = [closeLog EXCEPT ![i] = Append(@, c)]
    /\ pending' = [pending EXCEPT ![i] = None]
    /\ IF c.kind = "raise"
       THEN AttemptFailed(i, c.exc)
       ELSE IF pending[i][1].kind = "return"
            THEN Leave(i, "done", Some(pending[i][1].value))
            ELSE AttemptFailed(i, pending[i][1].exc)
    /\ UNCHANGED <<cliVars, inputVars, now, started_at, waiters, attempts,
                   conn, opened, closes, connLog, runLog, acquired, results,
                   returned, cancelling>>

(* close() / wait_closed() are over, c being what they did: an Exception   *)
(* they raised is swallowed (ssh.py:139-140), and the attempt body returns *)
(* its Result or lets its own exception reach tenacity.                    *)
CloseDone(i, c) ==
    /\ pc[i] = "closing"
    /\ MayFail(c)
    /\ closeLog' = [closeLog EXCEPT ![i] = Append(@, c)]
    /\ pending' = [pending EXCEPT ![i] = None]
    /\ IF pending[i][1].kind = "return"
       THEN Leave(i, "done", Some(pending[i][1].value))
       ELSE AttemptFailed(i, pending[i][1].exc)
    /\ UNCHANGED <<cliVars, inputVars, now, started_at, waiters, attempts,
                   conn, opened, closes, connLog, runLog, acquired, results,
                   returned, cancelling>>

(* The backoff sleep is over: tenacity starts the next attempt.            *)
BackoffDone(i) ==
    /\ pc[i] = "backoff"
    /\ attempts' = [attempts EXCEPT ![i] = @ + 1]
    /\ pc' = [pc EXCEPT ![i] = "connect"]
    /\ UNCHANGED <<cliVars, inputVars, now, started_at, sem_value, waiters,
                   woken, conn, opened, closes, pending, connLog, runLog, closeLog,
                   acquired, released, result, order, waits, results, returned,
                   cancelling>>

(* ------------------- execute_on_hosts / _run_all ----------------------- *)
AllDone == \A i \in Tasks : pc[i] = "done"

(* gather that hands the results back in completion order                 *)
GatherList_ByCompletion == [k \in 1..N |-> result[order[k]][1]]

(* asyncio.gather over the tasks: the list of the tasks' results, in task order   *)
(* (ssh.py:169-170, cli.py:232).                                           *)
GatherList == [i \in 1..N |-> result[i][1]]

GatherReturn ==
    /\ ~progress
    /\ ~returned
    /\ AllDone
    /\ results' = GatherList
    /\ returned' = TRUE
    /\ UNCHANGED <<cliVars, inputVars, now, started_at, pc, sem_value,
                   waiters, woken, attempts, conn, opened, closes, pending,
                   connLog, runLog, closeLog, acquired, released, result, order, waits,
                   cancelling>>

(* One iteration of `for coro in asyncio.as_completed(tasks)`              *)
(* (cli.py:218-220): the next finished task's Result is appended.          *)
ProgressNext ==
    /\ progress
    /\ ~returned
    /\ Len(results) < Len(order)
    /\ results' = Append(results, result[order[Len(results) + 1]][1])
    /\ UNCHANGED <<cliVars, inputVars, now, started_at, pc, sem_value,
                   waiters, woken, attempts, conn, opened, closes, pending,
                   connLog, runLog, closeLog, acquired, released, result, order, waits,
                   returned, cancelling>>

(* `return results_local` once as_completed is exhausted (cli.py:230).     *)
ProgressReturn ==
    /\ progress
    /\ ~returned
    /\ Len(results) = N
    /\ returned' = TRUE
    /\ UNCHANGED <<cliVars, inputVars, now, started_at, pc, sem_value,
                   waiters, woken, attempts, conn, opened, closes, pending,
                   connLog, runLog, closeLog, acquired, released, result, order, waits,
                   results, cancelling>>

Next ==
    \/ \E i \in Tasks : Start(i)
    \/ \E i \in Tasks : Resume(i)
    \/ \E i \in Tasks : \E o \in ConnectOutcomes : ConnectDone(i, o)
    \/ \E i \in Tasks : \E o \in RunOutcomes : RunDone(i, o)
    \/ \E i \in Tasks : \E c \in CloseOutcomes : CloseDone(i, c)
    \/ \E i \in Tasks : BackoffDone(i)
    \/ GatherReturn
    \/ ProgressNext
    \/ ProgressReturn

Spec == Init /\ [][Next]_vars

(* execute_on_hosts with a retry budget of zero or less (ExecOptions does  *)
(* not validate retry_attempts, ssh.py:70); no attempt is retried, so      *)
(* there is no backoff to wait for.                                        *)
InitClamp ==
    /\ hosts \in HostLists
    /\ limit \in 1..MaxLimit
    /\ retry_attempts \in (0 - MaxRetry)..0
    /\ progress \in BOOLEAN
    /\ pc = [i \in Tasks |-> "start"]
    /\ sem_value = limit
    /\ waiters = <<>>
    /\ woken = {}
    /\ attempts = [i \in Tasks |-> 0]
    /\ conn = [i \in Tasks |-> "none"]
    /\ opened = [i \in Tasks |-> 0]
    /\ closes = [i \in Tasks |-> 0]
    /\ pending = [i \in Tasks |-> None]
    /\ connLog = [i \in Tasks |-> <<>>]
    /\ runLog = [i \in Tasks |-> <<>>]
    /\ closeLog = [i \in Tasks |-> <<>>]
    /\ acquired = [i \in Tasks |-> 0]
    /\ released = [i \in Tasks |-> 0]
    /\ result = [i \in Tasks |-> None]
    /\ order = <<>>
    /\ waits = [i \in Tasks |-> <<>>]
    /\ results = <<>>
    /\ returned = FALSE
    /\ cancelling = FALSE
    /\ now = 0
    /\ started_at = [i \in Tasks |-> 0]
    /\ NoCli

NextClamp ==
    \/ \E i \in Tasks : Start(i)
    \/ \E i \in Tasks : Resume(i)
    \/ \E i \in Tasks : \E o \in ConnectOutcomes : ConnectDone(i, o)
    \/ \E i \in Tasks : \E o \in RunOutcomes : RunDone(i, o)
    \/ \E i \in Tasks : \E c \in CloseOutcomes : CloseDone(i, c)
    \/ GatherReturn
    \/ ProgressNext
    \/ ProgressReturn

SpecClamp == InitClamp /\ [][NextClamp]_vars

(* --------------------------- cancellation ------------------------------ *)
(* The batch is cancelled from outside (the awaiting caller is cancelled,  *)
(* e.g. on an interrupt): gather / asyncio.run cancel every pending task.  *)
CancelAll ==
    /\ ~cancelling
    /\ ~returned
    /\ cancelling' = TRUE
    /\ UNCHANGED <<cliVars, inputVars, now, started_at, pc, sem_value,
                   waiters, woken, attempts, conn, opened, closes, pending,
                   connLog, runLog, closeLog, acquired, released, result, order, waits, results,
                   returned>>

(* CancelledError is thrown into task i at the await it is suspended in.   *)
TaskCancelled(i) ==
    /\ cancelling
    /\ pc[i] \in {"start", "waiting", "connect", "run", "closing", "backoff"}
    /\ CASE pc[i] = "start" ->
              \* the coroutine never runs
              /\ pc' = [pc EXCEPT ![i] = "cancelled"]
              /\ UNCHANGED <<sem_value, waiters, woken, conn, closes, pending,
                             released, result, order, waits>>
         [] pc[i] = "waiting" ->
              \* inside acquire(): leave the queue; a slot already handed
              \* over is given back and passed on (locks.py acquire)
              LET q == RemoveWaiter(waiters, i)
                  w == woken \ {i}
                  s == IF i \in woken THEN WakeUpNext(sem_value + 1, q, w)
                       ELSE [value |-> sem_value, woken |-> w]
              IN /\ waiters' = q
                 /\ sem_value' = s.value
                 /\ woken' = s.woken
                 /\ pc' = [pc EXCEPT ![i] = "cancelled"]
                 /\ UNCHANGED <<conn, closes, pending, released, result, order, waits>>
         [] pc[i] = "connect" ->
              /\ AttemptFailed(i, CancelledError)
              /\ UNCHANGED <<waiters, conn, closes, pending>>
         [] pc[i] = "run" ->
              \* the finally block still closes the connection
              /\ pending' = [pending EXCEPT ![i] =
                                Some([kind |-> "raise", exc |-> CancelledError])]
              /\ conn' = [conn EXCEPT ![i] = "closed"]
              /\ closes' = [closes EXCEPT ![i] = @ + 1]
              /\ pc' = [pc EXCEPT ![i] = "closing"]
              /\ UNCHANGED <<sem_value, waiters, woken, released, result, order, waits>>
         [] pc[i] = "closing" ->
              \* not an Exception: it replaces whatever the body held
              /\ pending' = [pending EXCEPT ![i] = None]
              /\ AttemptFailed(i, CancelledError)
              /\ UNCHANGED <<waiters, conn, closes>>
         [] pc[i] = "backoff" ->
              /\ Leave(i, "cancelled", None)
              /\ UNCHANGED <<waiters, conn, closes, pending>>
    /\ UNCHANGED <<cliVars, inputVars, now, started_at, attempts, opened,
                   connLog, runLog, closeLog, acquired, results, returned, cancelling>>

(* execute_on_hosts (the gather collector) under cancellation, with        *)
(* closes that succeed.                                                    *)
InitCancel == Init /\ ~progress

NextCancel ==
    \/ \E i \in Tasks : Start(i)
    \/ \E i \in Tasks : Resume(i)
    \/ \E i \in Tasks : \E o \in ConnectOutcomes : ConnectDone(i, o)
    \/ \E i \in Tasks : \E o \in RunOutcomes : RunDone(i, o)
    \/ \E i \in Tasks : CloseDone(i, [kind |-> "ok"])
    \/ \E i \in Tasks : BackoffDone(i)
    \/ GatherReturn
    \/ CancelAll
    \/ \E i \in Tasks : TaskCancelled(i)

SpecCancel == InitCancel /\ [][NextCancel]_vars

(* ------------------------------ the clock ------------------------------ *)
(* time.perf_counter() is monotonic: between any two steps of the tasks    *)
(* it may advance, never go back.                                          *)
Tick ==
    /\ now < MaxClock
    /\ ~returned
    /\ now' = now + 1
    /\ UNCHANGED <<cliVars, inputVars, started_at, pc, sem_value, waiters,
                   woken, attempts, conn, opened, closes, pending, connLog,
                   runLog, closeLog, acquired, released, result, order, waits, results,
                   returned, cancelling>>

(* execute_on_hosts with time passing: one host with any retry budget, or  *)
(* more hosts than slots making a single attempt each; closing succeeds    *)
(* (the Result and its timestamps exist before the close, ssh.py:126-138). *)
InitTimed ==
    /\ Init
    /\ ~progress
    /\ N = 1 \/ (retry_attempts = 1 /\ N > limit)

NextTimed ==
    \/ \E i \in Tasks : Start(i)
    \/ \E i \in Tasks : Resume(i)
    \/ \E i \in Tasks : \E o \in ConnectOutcomes : ConnectDone(i, o)
    \/ \E i \in Tasks : \E o \in RunOutcomes : RunDone(i, o)
    \/ \E i \in Tasks : CloseDone(i, [kind |-> "ok"])
    \/ \E i \in Tasks : BackoffDone(i)
    \/ GatherReturn
    \/ Tick

SpecTimed == InitTimed /\ [][NextTimed]_vars

(* -------------------- cli.run: building host_specs --------------------- *)
(* Python truthiness of an optional string / an optional int               *)
TruthyStr(x) == x # None /\ x[1] # ""
TruthyInt(x) == x # None /\ x[1] # 0

(* `a or b`                                                                *)
OrStr(a, b) == IF TruthyStr(a) THEN a ELSE b
OrInt(a, b) == IF TruthyInt(a) THEN a ELSE b

(* os.path.expandvars(os.path.expanduser(p)) in an environment with        *)
(* HOME=/home/op and KEYS=/keys                                            *)
ExpandPath(p) ==
    CASE p = "~/host.pem" -> "/home/op/host.pem"
      [] p = "~/cli.pem" -> "/home/op/cli.pem"
      [] p = "$KEYS/inv.pem" -> "/keys/inv.pem"
      [] OTHER -> p

(* The command lines the model runs `run` with (cli.py:68-92); the         *)
(* --command-file argument is represented by the text of the file.         *)
CliArgs ==
    [command : {None, Some("cli-cmd")},
     command_file : {None, Some(""), Some("file-cmd")},
     username : {None, Some("cliuser")},
     port : {None, Some(2222)},
     identity : {None, Some("~/cli.pem")},
     known_hosts : {"strict", "off"},
     connect_timeout : {10},
     pty : {FALSE},
     command_timeout : {None}]

(* InventoryDefaults (config.py:23-32)                                     *)
DefaultsRecords ==
    [username : {None, Some("invuser")},
     port : {22, 2200},
     identity : {None, Some("$KEYS/inv.pem")},
     password : {None, Some("inv-pw")},
     known_hosts : {"strict", "off"},
     connect_timeout : {10},
     pty : {FALSE}]

(* HostEntry (config.py:35-43) for a host: every combination of fields for *)
(* a single-host inventory, bare or fully specified entries otherwise.     *)
HostEntries(host) ==
    IF N = 1
    THEN [host : {host},
          username : {None, Some("hostuser")},
          port : {None, Some(2201)},
          identity : {None, Some("~/host.pem")},
          password : {None, Some("host-pw")},
          command : {None, Some(""), Some("host-cmd")}]
    ELSE {[host |-> host, username |-> None, port |-> None, identity |-> None,
           password |-> None, command |-> None],
          [host |-> host, username |-> Some("hostuser"), port |-> Some(2201),
           identity |-> Some("~/host.pem"), password |-> Some("host-pw"),
           command |-> Some("host-cmd")]}

(* effective_known_hosts (cli.py:111); the CLI value is an enum member     *)
(* whose string is never empty                                             *)
EffectiveKnownHosts(c, d) ==
    IF c.known_hosts # "" THEN c.known_hosts ELSE d.known_hosts

(* base_identity (cli.py:114-120)                                          *)
BaseIdentity(c, d) ==
    LET expanded_identity ==
            IF c.identity # None THEN Some(ExpandPath(c.identity[1])) ELSE None
        inv_default_identity ==
            IF TruthyStr(d.identity) THEN Some(ExpandPath(d.identity[1])) ELSE None
    IN IF expanded_identity # None THEN expanded_identity ELSE inv_default_identity

(* options = ExecOptions(...) (cli.py:125-136)                             *)
BaseOptions(c, d) ==
    [username |-> OrStr(c.username, d.username),
     port |-> OrInt(c.port, Some(d.port)),
     identity |-> BaseIdentity(c, d),
     password |-> None,
     known_hosts |-> EffectiveKnownHosts(c, d),
     connect_timeout |-> IF c.connect_timeout # 0 THEN c.connect_timeout
                         ELSE d.connect_timeout,
     pty |-> c.pty,
     limit |-> limit,
     command_timeout |-> c.command_timeout,
     retry_attempts |-> retry_attempts]

(* the positional command tried first                                      *)
HostCommand_CliFirst(e, c) == OrStr(c.command, OrStr(c.command_file, e.command))

(* host_command = h.command or file_command or command (cli.py:141)        *)
HostCommand(e, c) == OrStr(OrStr(e.command, c.command_file), c.command)

(* the overrides first, as in HostEntry.effective_username                 *)
HostOptions_OverrideFirst(e, options, d) ==
    [options EXCEPT
        !.username = OrStr(options.username, e.username),
        !.port = OrInt(options.port, e.port),
        !.identity = IF options.identity # None THEN options.identity
                     ELSE IF TruthyStr(e.identity)
                          THEN Some(ExpandPath(e.identity[1])) ELSE None,
        !.password = IF TruthyStr(d.password) THEN d.password
                     ELSE IF TruthyStr(e.password) THEN e.password
                     ELSE options.password]

(* per_host_options = ExecOptions(...) (cli.py:146-161)                    *)
HostOptions(e, options, d) ==
    [options EXCEPT
        !.username = OrStr(e.username, options.username),
        !.port = OrInt(e.port, options.port),
        !.identity = IF TruthyStr(e.identity)
                     THEN Some(ExpandPath(e.identity[1])) ELSE options.identity,
        !.password = IF TruthyStr(e.password) THEN e.password
                     ELSE IF TruthyStr(d.password) THEN d.password
                     ELSE options.password]

(* ------------------------------ cli.run -------------------------------- *)
(* ok_count = sum(1 for r in results if r.ok) (cli.py:240)                 *)
OkCount(rs) == Cardinality({k \in 1..Len(rs) : rs[k].ok})

(* an exit code that reports success as soon as one host succeeded         *)
ExitCode_AnyOk(rs) == IF Len(rs) = 0 \/ OkCount(rs) > 0 THEN 0 ELSE 1

(* failed_count and exit_code (cli.py:241-242)                             *)
ExitCode(rs) ==
    LET ok_count == OkCount(rs)
        failed_count == Len(rs) - ok_count
    IN IF failed_count = 0 THEN 0 ELSE 1

(* The writes of the --save-dir loop (cli.py:300-303), in order: for each  *)
(* Result its stdout, then its stderr. (The file's name is derived from    *)
(* host; the derivation is not part of this model.)                        *)
SaveWrites(rs) ==
    [k \in 1..(2 * Len(rs)) |->
        LET r == rs[(k + 1) \div 2]
        IN IF k % 2 = 1
           THEN [host |-> r.host, stream |-> "stdout", text |-> r.stdout]
           ELSE [host |-> r.host, stream |-> "stderr", text |-> r.stderr]]

(* host_to_command (cli.py:308): a dict keyed by the host string, so a     *)
(* later spec of the same host replaces the earlier one's command.         *)
HostToCommand(specs) ==
    [hn \in {specs[k].host : k \in 1..Len(specs)} |->
        specs[CHOOSE k \in 1..Len(specs) :
                 /\ specs[k].host = hn
                 /\ \A j \in 1..Len(specs) : specs[j].host = hn => j <= k].command]

(* dict.get(key): None when the key is absent                              *)
DictGet(d, key) == IF key \in DOMAIN d THEN Some(d[key]) ELSE None

(* The records of the --log-file loop (cli.py:309-323), one per Result in  *)
(* the order of `results` (without the wall-clock timestamp).              *)
LogRecords(rs, specs) ==
    [k \in 1..Len(rs) |->
        [host |-> rs[k].host, ok |-> rs[k].ok, exit_status |-> rs[k].exit_status,
         duration_sec |-> Duration(rs[k]), error |-> rs[k].error,
         stdout |-> rs[k].stdout, stderr |-> rs[k].stderr,
         command |-> DictGet(HostToCommand(specs), rs[k].host)]]

NotCreated == [i \in Tasks |-> "new"]

(* the dry-run test placed after the execution instead of before it        *)
RunAll_IgnoreDryRun ==
    /\ exit_code = None
    /\ N >= 1
    /\ pc = NotCreated
    /\ pc' = [i \in Tasks |-> "start"]
    /\ UNCHANGED <<cliVars, inputVars, now, started_at, sem_value, waiters,
                   woken, attempts, conn, opened, closes, pending, connLog,
                   runLog, closeLog, acquired, released, result, order, waits, results,
                   returned, cancelling>>

(* Not a dry run: asyncio.run(_run_all()) creates the semaphore and one    *)
(* task per host spec (cli.py:165, 202-203, 238).                          *)
RunAll ==
    /\ ~dry_run
    /\ exit_code = None
    /\ N >= 1
    /\ pc = NotCreated
    /\ pc' = [i \in Tasks |-> "start"]
    /\ UNCHANGED <<cliVars, inputVars, now, started_at, sem_value, waiters,
                   woken, attempts, conn, opened, closes, pending, connLog,
                   runLog, closeLog, acquired, released, result, order, waits, results,
                   returned, cancelling>>

(* --dry-run: the plan is printed and typer.Exit(code=0) is raised         *)
(* (cli.py:165-190). sd / lf: whether --save-dir / --log-file were given.  *)
DryRun(sd, lf) ==
    /\ dry_run
    /\ exit_code = None
    /\ N >= 1
    /\ pc = NotCreated
    /\ out_opts' = Some([save_dir |-> sd, log_file |-> lf])
    /\ exit_code' = Some(0)
    /\ UNCHANGED <<dry_run, saved, log_records, cli, defaults, h, host_specs,
                   connect_calls, credVars, inputVars, now, started_at, pc, sem_value,
                   waiters, woken, attempts, conn, opened, closes, pending,
                   connLog, runLog, closeLog, acquired, released, result, order, waits, results,
                   returned, cancelling>>

(* After asyncio.run returned `results`: the exit code is computed, the    *)
(* optional outputs are written, typer.Exit(code=exit_code) is raised      *)
(* (cli.py:238-325).                                                       *)
CliFinish(sd, lf) ==
    /\ returned
    /\ exit_code = None
    /\ N >= 1
    /\ out_opts' = Some([save_dir |-> sd, log_file |-> lf])
    /\ saved' = IF sd THEN Some(SaveWrites(results)) ELSE None
    /\ log_records' = IF lf THEN Some(LogRecords(results, host_specs)) ELSE None
    /\ exit_code' = Some(ExitCode(results))
    /\ UNCHANGED <<dry_run, cli, defaults, h, host_specs, connect_calls,
                   credVars, inputVars, now, started_at, pc, sem_value, waiters, woken,
                   attempts, conn, opened, closes, pending, connLog, runLog, closeLog,
                   acquired, released, result, order, waits, results, returned,
                   cancelling>>

(* Before asyncio.run: no task exists, the semaphore has `limit` slots.    *)
NoTasks ==
    /\ pc = NotCreated
    /\ sem_value = limit
    /\ waiters = <<>>
    /\ woken = {}
    /\ attempts = [i \in Tasks |-> 0]
    /\ conn = [i \in Tasks |-> "none"]
    /\ opened = [i \in Tasks |-> 0]
    /\ closes = [i \in Tasks |-> 0]
    /\ pending = [i \in Tasks |-> None]
    /\ connLog = [i \in Tasks |-> <<>>]
    /\ runLog = [i \in Tasks |-> <<>>]
    /\ closeLog = [i \in Tasks |-> <<>>]
    /\ acquired = [i \in Tasks |-> 0]
    /\ released = [i \in Tasks |-> 0]
    /\ result = [i \in Tasks |-> None]
    /\ order = <<>>
    /\ waits = [i \in Tasks |-> <<>>]
    /\ results = <<>>
    /\ returned = FALSE
    /\ cancelling = FALSE
    /\ now = 0
    /\ started_at = [i \in Tasks |-> 0]

(* A HostEntry (config.py:35-43) that names only the host, and one that   *)
(* also carries its own command.                                           *)
BareEntry(host) ==
    [host |-> host, username |-> None, port |-> None, identity |-> None,
     password |-> None, command |-> None]

OwnCommandEntry(host) == [BareEntry(host) EXCEPT !.command = Some("host-cmd")]

(* The arguments of `scatter run -i inv -c cli-cmd` with every other       *)
(* option left at its default (cli.py:64-92).                              *)
RunArgs ==
    [command |-> Some("cli-cmd"), command_file |-> None, username |-> None,
     port |-> None, identity |-> None, known_hosts |-> "off",
     connect_timeout |-> 10, pty |-> FALSE, command_timeout |-> None]

(* InventoryDefaults() of an inventory without a defaults section          *)
(* (config.py:23-32).                                                      *)
PlainDefaults ==
    [username |-> None, port |-> 22, identity |-> None, password |-> None,
     known_hosts |-> "strict", connect_timeout |-> 10, pty |-> FALSE]

(* host_specs as the loop of cli.py:138-162 builds it from inventory       *)
(* entries that all have a command.                                        *)
PlanOf(entries, c, d) ==
    [k \in 1..Len(entries) |->
        [host |-> entries[k].host,
         command |-> HostCommand(entries[k], c)[1],
         options |-> HostOptions(entries[k], BaseOptions(c, d), d)]]

(* The `run` command from the point where host_specs is built: the         *)
(* inventory has at least one host (config.py:128-129), --retry-attempts   *)
(* is at least 1 (cli.py:82).                                              *)
InitCli ==
    /\ hosts \in HostLists
    /\ N >= 1
    /\ limit \in 1..MaxLimit
    /\ retry_attempts \in 1..MaxRetry
    /\ progress \in BOOLEAN
    /\ dry_run \in BOOLEAN
    /\ NoTasks
    /\ exit_code = None
    /\ saved = None
    /\ log_records = None
    /\ out_opts = None
    /\ cli = RunArgs
    /\ defaults = PlainDefaults
    /\ h = None
    /\ host_specs = PlanOf([k \in 1..N |-> BareEntry(hosts[k])], RunArgs, PlainDefaults)
    /\ connect_calls = <<>>
    /\ opt_kwargs = None
    /\ raised = None

NextCli ==
    \/ RunAll
    \/ \E sd, lf \in BOOLEAN : DryRun(sd, lf)
    \/ \E i \in Tasks : Start(i)
    \/ \E i \in Tasks : Resume(i)
    \/ \E i \in Tasks : \E o \in ConnectOutcomes : ConnectDone(i, o)
    \/ \E i \in Tasks : \E o \in RunOutcomes : RunDone(i, o)
    \/ \E i \in Tasks : \E c \in CloseOutcomes : CloseDone(i, c)
    \/ \E i \in Tasks : BackoffDone(i)
    \/ GatherReturn
    \/ ProgressNext
    \/ ProgressReturn
    \/ \E sd, lf \in BOOLEAN : CliFinish(sd, lf)

SpecCli == InitCli /\ [][NextCli]_vars

(* ------------- cli.run: options given or left to their defaults -------- *)

(* The options as typed on the command line, None for one that is not      *)
(* given: --username, --port and --identity together, --known-hosts,       *)
(* --connect-timeout, --pty.                                               *)
GivenArgs ==
    {[command |-> Some("cli-cmd"), username |-> u[1], port |-> u[2],
      identity |-> u[3], known_hosts |-> kh, connect_timeout |-> ct, pty |-> pt] :
        u \in {<<None, None, None>>, <<Some("cliuser"), Some(2222), Some("~/cli.pem")>>},
        kh \in {None, Some("strict")},
        ct \in {None, Some(30)},
        pt \in {None, Some(TRUE)}}

(* What typer hands to `run` (cli.py:68-92): an option that is not given   *)
(* has the default of its declaration, KnownHostsPolicy.off, 10.0 and      *)
(* False for --known-hosts, --connect-timeout and --pty; `given` keeps the *)
(* names of the options that were typed.                                   *)
ParseArgs(g) ==
    [command |-> g.command, command_file |-> None, username |-> g.username,
     port |-> g.port, identity |-> g.identity,
     known_hosts |-> IF g.known_hosts = None THEN "off" ELSE g.known_hosts[1],
     connect_timeout |-> IF g.connect_timeout = None THEN 10 ELSE g.connect_timeout[1],
     pty |-> IF g.pty = None THEN FALSE ELSE g.pty[1],
     command_timeout |-> None,
     given |-> {f \in {"username", "port", "identity", "known_hosts",
                       "connect_timeout", "pty"} : g[f] # None}]

(* InventoryDefaults (config.py:23-32) of an inventory without a defaults  *)
(* section, and of one that sets every default.                            *)
DefaultsSections ==
    {PlainDefaults,
     [username |-> Some("invuser"), port |-> 2200, identity |-> Some("$KEYS/inv.pem"),
      password |-> Some("inv-pw"), known_hosts |-> "strict", connect_timeout |-> 5,
      pty |-> TRUE]}

InitDefaults ==
    /\ hosts \in HostLists
    /\ N >= 1
    /\ limit = MaxLimit
    /\ retry_attempts = MaxRetry
    /\ progress = TRUE
    /\ dry_run = FALSE
    /\ NoTasks
    /\ exit_code = None
    /\ saved = None
    /\ log_records = None
    /\ out_opts = None
    /\ cli \in {ParseArgs(g) : g \in GivenArgs}
    /\ defaults \in DefaultsSections
    /\ h = None
    /\ host_specs = <<>>
    /\ connect_calls = <<>>
    /\ opt_kwargs = None
    /\ raised = None

(* `scatter run --log-file` on inventories whose entries may name the same *)
(* host more than once (the same address reached twice, each entry with    *)
(* its own command or with the command of the command line); connection    *)
(* closes succeed.                                                         *)
LogHostLists ==
    {l \in HostLists : Len(l) >= 1} \cup {[k \in 1..n |-> HostPool[1]] : n \in 2..MaxHosts}

InitLog ==
    /\ hosts \in LogHostLists
    /\ limit \in 1..MaxLimit
    /\ retry_attempts = 1
    /\ progress \in BOOLEAN
    /\ dry_run = FALSE
    /\ NoTasks
    /\ exit_code = None
    /\ saved = None
    /\ log_records = None
    /\ out_opts = None
    /\ cli = RunArgs
    /\ defaults = PlainDefaults
    /\ h = None
    /\ \E own \in [1..N -> BOOLEAN] :
          host_specs = PlanOf([k \in 1..N |-> IF own[k] THEN OwnCommandEntry(hosts[k])
                                                       ELSE BareEntry(hosts[k])],
                              RunArgs, PlainDefaults)
    /\ connect_calls = <<>>
    /\ opt_kwargs = None
    /\ raised = None

NextLog ==
    \/ RunAll
    \/ \E i \in Tasks : Start(i)
    \/ \E i \in Tasks : Resume(i)
    \/ \E i \in Tasks : \E o \in ConnectOutcomes : ConnectDone(i, o)
    \/ \E i \in Tasks : \E o \in RunOutcomes : RunDone(i, o)
    \/ \E i \in Tasks : CloseDone(i, [kind |-> "ok"])
    \/ GatherReturn
    \/ ProgressNext
    \/ ProgressReturn
    \/ \E sd \in BOOLEAN : CliFinish(sd, TRUE)

SpecLog == InitLog /\ [][NextLog]_vars

(* ------------- ExecOptions built by a direct caller of ssh.py ---------- *)

(* the fields of the ExecOptions dataclass (ssh.py:61-70)                  *)
ExecOptionsFields ==
    {"username", "port", "identity", "password", "known_hosts",
     "connect_timeout", "pty", "limit", "command_timeout", "retry_attempts"}

NoKwargs == [k \in {} |-> None]

(* The keyword arguments make_options passes to ExecOptions                *)
(* (test_credential_lists.py:34-47): every field of the dataclass, and     *)
(* the candidate lists when the caller overrides them                      *)
(* (test_credential_lists.py:62, 89).                                      *)
CallerKwargs ==
    {[username |-> Some("admin"), port |-> Some(2222), identity |-> ident,
      password |-> pw, known_hosts |-> "off", connect_timeout |-> 5,
      pty |-> FALSE, limit |-> 5, command_timeout |-> None,
      retry_attempts |-> ra] @@ pcs @@ ucs :
        ident \in {None, Some("id_ed25519")},
        pw \in {None, Some("pw0")},
        ra \in 1..MaxRetry,
        pcs \in {NoKwargs, [password_candidates |-> <<"p1", "p2">>]},
        ucs \in {NoKwargs, [username_candidates |-> <<"u1", "u2">>]}}

(* ExecOptions called with keywords: the generated __init__ accepts       *)
(* its ten fields and raises TypeError for any other keyword; on success   *)
(* the options are handed to run_on_host("h", "true", opts, sem)           *)
(* (test_credential_lists.py:47, 64-66).                                   *)
MakeOptions ==
    /\ opt_kwargs # None
    /\ raised = None
    /\ host_specs = <<>>
    /\ IF DOMAIN opt_kwargs \subseteq ExecOptionsFields
       THEN /\ host_specs' = <<[host |-> hosts[1], command |-> "true",
                                options |-> opt_kwargs]>>
            /\ UNCHANGED raised
       ELSE /\ raised' = Some("TypeError")
            /\ UNCHANGED host_specs
    /\ UNCHANGED <<dry_run, exit_code, saved, log_records, out_opts, cli,
                   defaults, h, connect_calls, opt_kwargs, inputVars, now,
                   started_at, pc, sem_value, waiters, woken, attempts, conn,
                   opened, closes, pending, connLog, runLog, closeLog,
                   acquired, released, result, order, waits, results,
                   returned, cancelling>>

(* asyncio.run(go()): run_on_host is entered with the options built        *)
(* (test_credential_lists.py:64-68).                                       *)
CallRunOnHost ==
    /\ host_specs # <<>>
    /\ pc = NotCreated
    /\ pc' = [i \in Tasks |-> "start"]
    /\ UNCHANGED <<cliVars, inputVars, now, started_at, sem_value, waiters,
                   woken, attempts, conn, opened, closes, pending, connLog,
                   runLog, closeLog, acquired, released, result, order, waits,
                   results, returned, cancelling>>

(* One host, a semaphore of one slot, options.retry_attempts attempts.     *)
InitCred ==
    /\ hosts \in {l \in HostLists : Len(l) = 1}
    /\ limit = 1
    /\ opt_kwargs \in CallerKwargs
    /\ retry_attempts = opt_kwargs.retry_attempts
    /\ progress = FALSE
    /\ NoTasks
    /\ dry_run = FALSE
    /\ exit_code = None
    /\ saved = None
    /\ log_records = None
    /\ out_opts = None
    /\ cli = None
    /\ defaults = None
    /\ h = None
    /\ host_specs = <<>>
    /\ connect_calls = <<>>
    /\ raised = None

NextCred ==
    \/ MakeOptions
    \/ CallRunOnHost
    \/ \E i \in Tasks : Start(i)
    \/ \E i \in Tasks : \E o \in ConnectOutcomes : ConnectDone(i, o)
    \/ \E i \in Tasks : \E o \in RunOutcomes : RunDone(i, o)
    \/ \E i \in Tasks : \E c \in CloseOutcomes : CloseDone(i, c)
    \/ \E i \in Tasks : BackoffDone(i)

SpecCred == InitCred /\ [][NextCred]_vars

(* -------------------- cli.run: the --save-dir files -------------------- *)

(* the characters for which str.isalnum() holds, among those of NamePool   *)
AlnumChars == {"w", "e", "b", "1"}

(* _sanitize (cli.py:297-298) on a name given as its characters            *)
Sanitize(name) ==
    [k \in 1..Len(name) |->
        IF name[k] \in AlnumChars \/ name[k] \in {"-", "_", "."}
        THEN name[k] ELSE "_"]

(* the file a write of the --save-dir loop goes to: f"{base}.stdout.txt"   *)
(* or f"{base}.stderr.txt" (cli.py:301-303)                                *)
FilePath(w) == <<Sanitize(w.host), ".", w.stream, ".txt">>

(* The directory after the writes: write_text replaces the content of a    *)
(* file that exists, so each file holds the text of its last write.        *)
SavedFiles(ws) ==
    [f \in {FilePath(ws[k]) : k \in 1..Len(ws)} |->
        ws[CHOOSE k \in 1..Len(ws) :
              /\ FilePath(ws[k]) = f
              /\ \A j \in (k + 1)..Len(ws) : FilePath(ws[j]) # f].text]

(* host names, character by character: web/1, web_1, web.1                 *)
NamePool ==
    {<<"w", "e", "b", "/", "1">>, <<"w", "e", "b", "_", "1">>,
     <<"w", "e", "b", ".", "1">>}

(* inventories of distinct hosts                                           *)
SaveHostLists ==
    UNION {{l \in [1..n -> NamePool] : \A a, b \in 1..n : l[a] = l[b] => a = b} :
              n \in 1..MaxHosts}

(* `scatter run --save-dir` on such inventories; connection closes         *)
(* succeed.                                                                *)
InitSave ==
    /\ hosts \in SaveHostLists
    /\ limit \in 1..MaxLimit
    /\ retry_attempts = 1
    /\ progress \in BOOLEAN
    /\ dry_run = FALSE
    /\ NoTasks
    /\ exit_code = None
    /\ saved = None
    /\ log_records = None
    /\ out_opts = None
    /\ cli = RunArgs
    /\ defaults = PlainDefaults
    /\ h = None
    /\ host_specs = PlanOf([k \in 1..N |-> BareEntry(hosts[k])], RunArgs, PlainDefaults)
    /\ connect_calls = <<>>
    /\ opt_kwargs = None
    /\ raised = None

NextSave ==
    \/ RunAll
    \/ \E i \in Tasks : Start(i)
    \/ \E i \in Tasks : Resume(i)
    \/ \E i \in Tasks : \E o \in ConnectOutcomes : ConnectDone(i, o)
    \/ \E i \in Tasks : \E o \in RunOutcomes : RunDone(i, o)
    \/ \E i \in Tasks : CloseDone(i, [kind |-> "ok"])
    \/ GatherReturn
    \/ ProgressNext
    \/ ProgressReturn
    \/ \E lf \in BOOLEAN : CliFinish(TRUE, lf)

SpecSave == InitSave /\ [][NextSave]_vars

(* ---------------------- cli.run: the plan, _connect -------------------- *)
(* k-th iteration of `for h in inv.hosts` (cli.py:140-162), e being the    *)
(* inventory's entry for the k-th host: BadParameter (exit code 2) when    *)
(* no command is left for it, else its spec is appended.                   *)
BuildHostSpec(e) ==
    /\ cli # None
    /\ exit_code = None
    /\ Len(host_specs) < N
    /\ h' = Some(e)
    /\ LET host_command == HostCommand(e, cli)
           options == BaseOptions(cli, defaults)
       IN IF ~TruthyStr(host_command)
          THEN /\ exit_code' = Some(2)
               /\ UNCHANGED host_specs
          ELSE /\ host_specs' = Append(host_specs,
                                       [host |-> e.host,
                                        command |-> host_command[1],
                                        options |-> HostOptions(e, options, defaults)])
               /\ UNCHANGED exit_code
    /\ UNCHANGED <<dry_run, saved, log_records, out_opts, cli, defaults,
                   connect_calls, credVars, inputVars, now, started_at, pc, sem_value,
                   waiters, woken, attempts, conn, opened, closes, pending,
                   connLog, runLog, closeLog, acquired, released, result, order, waits, results,
                   returned, cancelling>>

(* the policy passed on to the transport                                   *)
ConnectKwargs_HonourPolicy(host, options) ==
    [host |-> host,
     port |-> IF TruthyInt(options.port) THEN options.port[1] ELSE 22,
     username |-> options.username,
     connect_timeout |-> options.connect_timeout,
     agent_forwarding |-> TRUE,
     known_hosts |-> IF options.known_hosts = "off" THEN None
                     ELSE Some("~/.ssh/known_hosts")]
    @@ (IF options.identity # None
        THEN [client_keys |-> <<options.identity[1]>>]
        ELSE [k \in {} |-> None])
    @@ (IF TruthyStr(options.password)
        THEN [password |-> options.password[1]]
        ELSE [k \in {} |-> None])

(* The keyword arguments _connect hands to asyncssh.connect (ssh.py:81-98) *)
ConnectKwargs(host, options) ==
    [host |-> host,
     port |-> IF TruthyInt(options.port) THEN options.port[1] ELSE 22,
     username |-> options.username,
     connect_timeout |-> options.connect_timeout,
     agent_forwarding |-> TRUE,
     known_hosts |-> None]
    @@ (IF options.identity # None
        THEN [client_keys |-> <<options.identity[1]>>]
        ELSE [k \in {} |-> None])
    @@ (IF TruthyStr(options.password)
        THEN [password |-> options.password[1]]
        ELSE [k \in {} |-> None])

(* a host connected to as soon as its spec is built                        *)
ConnectCall_AsBuilt ==
    /\ cli # None
    /\ exit_code = None
    /\ Len(connect_calls) < Len(host_specs)
    /\ LET spec == host_specs[Len(connect_calls) + 1]
       IN connect_calls' = Append(connect_calls,
                                  ConnectKwargs(spec.host, spec.options))
    /\ UNCHANGED <<dry_run, exit_code, saved, log_records, out_opts, cli,
                   defaults, h, host_specs, credVars, inputVars, now, started_at, pc,
                   sem_value, waiters, woken, attempts, conn, opened, closes,
                   pending, connLog, runLog, closeLog, acquired, released, result, order, waits,
                   results, returned, cancelling>>

(* The first _connect(host, options) of the next host spec (ssh.py:123),   *)
(* recorded in the order of host_specs.                                    *)
ConnectCall ==
    /\ cli # None
    /\ exit_code = None
    /\ Len(host_specs) = N
    /\ Len(connect_calls) < N
    /\ LET spec == host_specs[Len(connect_calls) + 1]
       IN connect_calls' = Append(connect_calls,
                                  ConnectKwargs(spec.host, spec.options))
    /\ UNCHANGED <<dry_run, exit_code, saved, log_records, out_opts, cli,
                   defaults, h, host_specs, credVars, inputVars, now, started_at, pc,
                   sem_value, waiters, woken, attempts, conn, opened, closes,
                   pending, connLog, runLog, closeLog, acquired, released, result, order, waits,
                   results, returned, cancelling>>

(* `run` from its arguments and the loaded inventory up to the connect     *)
(* calls; the engine is left out (it does not read what is built here).    *)
InitPlan ==
    /\ hosts \in HostLists
    /\ N >= 1
    /\ limit = MaxLimit
    /\ retry_attempts = MaxRetry
    /\ progress = TRUE
    /\ dry_run = FALSE
    /\ NoTasks
    /\ exit_code = None
    /\ saved = None
    /\ log_records = None
    /\ out_opts = None
    /\ cli \in CliArgs
    /\ defaults \in DefaultsRecords
    /\ h = None
    /\ host_specs = <<>>
    /\ connect_calls = <<>>
    /\ opt_kwargs = None
    /\ raised = None

NextPlan ==
    \/ /\ Len(host_specs) < N
       /\ \E e \in HostEntries(hosts[Len(host_specs) + 1]) : BuildHostSpec(e)
    \/ ConnectCall

SpecPlan == InitPlan /\ [][NextPlan]_vars

(* the same loop for command lines that leave options out                  *)
SpecDefaults == InitDefaults /\ [][NextPlan]_vars

(* ======================= properties ==================================== *)
Last(q) == q[Len(q)]

Ended(i) == pc[i] \in {"done", "cancelled"}

(* Tasks inside the body of `async with semaphore`.                        *)
InBody == {i \in Tasks : pc[i] \in {"connect", "run", "closing", "backoff"}}

(* Number of Results task i has produced.                                  *)
Produced(i) == Cardinality({k \in 1..Len(order) : order[k] = i})

IsTransient(o) == o.kind = "raise" /\ o.exc.name \in {"OSError", "TimeoutError"}

AllTransient(log) == \A k \in 1..Len(log) : IsTransient(log[k])

Bijections(n) == {f \in [1..n -> 1..n] : \A a, b \in 1..n : f[a] = f[b] => a = b}

(* C1: execute_on_hosts (gather collection) returns a list of length N     *)
(* whose i-th Result is for the i-th input host, whatever the completion   *)
(* order of the tasks.                                                     *)
C1_OrderPreserved ==
    (returned /\ ~progress) =>
        /\ Len(results) = N
        /\ \A i \in 1..N : results[i].host = hosts[i]

(* the second task finished before the first one, and the list is returned *)
C1_Witness ==
    /\ returned /\ ~progress
    /\ N >= 2
    /\ order[1] = 2

(* C2: at most `limit` tasks are inside the Session Executor body          *)
(* (connecting, running, backing off, closing) in every state, with the    *)
(* gather collector and with the as_completed collector.                   *)
C2_ConcurrencyBound == Cardinality(InBody) <= limit

(* all slots are busy while another task is queued                         *)
C2_Witness ==
    /\ N > limit
    /\ Cardinality(InBody) = limit
    /\ \E i \in Tasks : pc[i] = "waiting"

(* C3: every target produces exactly one Result: never two, none once its  *)
(* task has ended, and the returned list holds each task's Result once.    *)
C3_ExactlyOneResult ==
    /\ \A i \in Tasks :
          /\ Produced(i) <= 1
          /\ (Produced(i) = 1) <=> (result[i] # None)
          /\ Ended(i) => Produced(i) = 1
    /\ returned =>
          /\ Len(results) = N
          /\ \E f \in Bijections(N) : \A k \in 1..N : results[k] = result[f[k]][1]

(* a returned batch with a succeeding, a command-failing or connection-    *)
(* failing target side by side                                             *)
C3_Witness ==
    /\ returned
    /\ \E i, j \in Tasks :
          /\ result[i][1].ok
          /\ ~result[j][1].ok
          /\ result[j][1].exit_status = None

(* A Result without its two timestamps                                     *)
Untimed(r) == [f \in DOMAIN r \ {"started_at", "ended_at"} |-> r[f]]

(* The Result that task i's own transport outcomes call for: the last      *)
(* attempt decides (its connect error, its run error, or its completion).  *)
OwnOutcome(i) ==
    LET c == Last(connLog[i])
        failure(e) == [host |-> hosts[i], exit_status |-> None, stdout |-> "",
                       stderr |-> "", ok |-> FALSE,
                       error |-> Some(e.name \o ": " \o e.msg)]
    IN IF c.kind = "raise" THEN failure(c.exc)
       ELSE LET r == Last(runLog[i])
            IN IF r.kind = "raise" THEN failure(r.exc)
               ELSE [host |-> hosts[i], exit_status |-> Some(r.exit_status),
                     stdout |-> IF r.stdout = None THEN "" ELSE r.stdout[1],
                     stderr |-> IF r.stderr = None THEN "" ELSE r.stderr[1],
                     ok |-> (r.exit_status = 0), error |-> None]

(* C4: isolation. A task's Result is the one its own attempts call for; no *)
(* task is ever cancelled by a sibling's failure, and every task's Result  *)
(* is in the returned list.                                                *)
C4_Isolation ==
    \A i \in Tasks :
        /\ pc[i] # "cancelled"
        /\ pc[i] = "done" => Untimed(result[i][1]) = OwnOutcome(i)
        /\ returned => \E k \in 1..Len(results) : Untimed(results[k]) = OwnOutcome(i)

(* a sibling exhausted its retries, or raised an unexpected fault, and     *)
(* the other target still came back ok with its stdout                     *)
C4_Witness ==
    /\ returned
    /\ \E i, j \in Tasks :
          /\ i # j
          /\ AllTransient(connLog[j]) /\ Len(connLog[j]) >= 2
          /\ ~result[j][1].ok
          /\ result[i][1].ok /\ result[i][1].stdout = "out"

(* C5: retry then succeed. While a target has only seen k < max attempts   *)
(* transient connection failures it keeps trying; when attempt k+1         *)
(* connects and the command exits 0, the Result is ok and exactly k+1      *)
(* attempts were made.                                                     *)
C5_RetryThenSucceed ==
    \A i \in Tasks :
        LET k == Len(connLog[i]) - 1
        IN /\ (AllTransient(connLog[i]) /\ Len(connLog[i]) < MaxAttempts)
                  => ~Ended(i)
           /\ ( /\ pc[i] = "done"
                /\ k >= 0
                /\ AllTransient(SubSeq(connLog[i], 1, k))
                /\ connLog[i][k + 1].kind = "ok"
                /\ Len(runLog[i]) = 1
                /\ runLog[i][1].kind = "completed"
                /\ runLog[i][1].exit_status = 0 )
                  => /\ result[i][1].ok
                     /\ attempts[i] = k + 1

(* first attempt failed, second connected, command exited 0                *)
C5_Witness ==
    \E i \in Tasks :
        /\ pc[i] = "done"
        /\ Len(connLog[i]) = 2
        /\ IsTransient(connLog[i][1])
        /\ connLog[i][2].kind = "ok"
        /\ result[i][1].ok
        /\ attempts[i] = 2

(* C6: retry exhaustion. When every connection attempt of a finished       *)
(* target failed with a transport error and retry_attempts = R >= 1,       *)
(* exactly R attempts were made and the Result is ok = false,              *)
(* exit_status = None, error = "<kind>: <message>".                        *)
C6_RetryExhaustion ==
    \A i \in Tasks :
        ( /\ pc[i] = "done"
          /\ retry_attempts >= 1
          /\ connLog[i] # <<>>
          /\ AllTransient(connLog[i]) )
            => /\ attempts[i] = retry_attempts
               /\ Len(connLog[i]) = retry_attempts
               /\ ~result[i][1].ok
               /\ result[i][1].exit_status = None
               /\ result[i][1].error # None
               /\ result[i][1].error[1] # ""
               /\ result[i][1].error[1] =
                     Last(connLog[i]).exc.name \o ": " \o Last(connLog[i]).exc.msg

(* a target that failed both of its two attempts                           *)
C6_Witness ==
    \E i \in Tasks :
        /\ pc[i] = "done"
        /\ retry_attempts >= 2
        /\ AllTransient(connLog[i])
        /\ Len(connLog[i]) = retry_attempts
        /\ result[i][1].error = Some("OSError: boom")

(* C7: command failure is terminal. When the first connection succeeds and *)
(* the command returns a non-zero exit code c, no second attempt and no    *)
(* second run ever happen, and the Result is ok = false, exit_status = c   *)
(* with the captured output.                                               *)
C7_CommandFailureTerminal ==
    \A i \in Tasks :
        ( /\ connLog[i] # <<>> /\ connLog[i][1].kind = "ok"
          /\ runLog[i] # <<>> /\ runLog[i][1].kind = "completed"
          /\ runLog[i][1].exit_status # 0 )
            => /\ pc[i] \in {"closing", "done"}
               /\ attempts[i] = 1
               /\ Len(connLog[i]) = 1
               /\ Len(runLog[i]) = 1
               /\ pc[i] = "done" =>
                     /\ ~result[i][1].ok
                     /\ result[i][1].exit_status = Some(runLog[i][1].exit_status)
                     /\ result[i][1].stdout = ""
                     /\ result[i][1].stderr = "err"

(* exit code 1 on the first attempt with a second attempt still allowed    *)
C7_Witness ==
    \E i \in Tasks :
        /\ pc[i] = "done"
        /\ retry_attempts >= 2
        /\ result[i][1].exit_status = Some(1)
        /\ attempts[i] = 1

HasTimedOut(i) ==
    \E k \in 1..Len(runLog[i]) :
        runLog[i][k].kind = "raise" /\ runLog[i][k].exc.name = "TimeoutError"

(* C8: command timeout is terminal. Once a command of a target has timed   *)
(* out, the target makes no further connection attempt (it is closing its  *)
(* connection or done) and ends with a failed Result naming the timeout.   *)
C8_TimeoutTerminal ==
    \A i \in Tasks :
        HasTimedOut(i) =>
            /\ pc[i] \in {"closing", "done"}
            /\ Len(runLog[i]) = 1
            /\ pc[i] = "done" =>
                  /\ ~result[i][1].ok
                  /\ result[i][1].error = Some("TimeoutError: timed out")

(* Slots handed out: held by a task inside the body, or already handed to  *)
(* a woken waiter that has not resumed yet.                                *)
HeldSlots ==
    Cardinality({i \in Tasks : acquired[i] > released[i]}) + Cardinality(woken)

(* C9: scoped release. A task releases at most what it acquired, it holds  *)
(* a slot exactly while it is inside the body, it has released exactly     *)
(* once when it has ended (with a Result or by cancellation) if it had     *)
(* acquired; free + held slots = limit always, and free = limit once all   *)
(* tasks have ended.                                                       *)
C9_ScopedRelease ==
    /\ \A i \in Tasks :
          /\ released[i] <= acquired[i]
          /\ acquired[i] <= 1
          /\ (acquired[i] > released[i]) <=> (i \in InBody)
          /\ Ended(i) => released[i] = acquired[i]
    /\ sem_value >= 0
    /\ sem_value + HeldSlots = limit
    /\ (\A i \in Tasks : Ended(i)) => sem_value = limit

(* a task was cancelled while it held a slot, another ended with a Result, *)
(* and every slot is free again                                            *)
C9_Witness ==
    /\ N >= 2
    /\ \A i \in Tasks : Ended(i)
    /\ \E i, j \in Tasks :
          /\ pc[i] = "cancelled" /\ acquired[i] = 1 /\ released[i] = 1
          /\ pc[j] = "done" /\ released[j] = 1
    /\ sem_value = limit

(* C10: every connection a target established has been closed when the     *)
(* target's Result is returned, whatever the run did; at most one          *)
(* connection per target is ever unclosed.                                 *)
C10_ConnectionsClosed ==
    \A i \in Tasks :
        /\ closes[i] <= opened[i]
        /\ opened[i] <= closes[i] + 1
        /\ (conn[i] = "open") <=> (opened[i] = closes[i] + 1)
        /\ pc[i] = "done" => (closes[i] = opened[i] /\ conn[i] # "open")

(* finished targets whose run exited non-zero and whose run raised, each   *)
(* with its connection closed                                              *)
C10_Witness ==
    \E i, j \in Tasks :
        /\ pc[i] = "done" /\ pc[j] = "done"
        /\ runLog[i] # <<>> /\ runLog[j] # <<>>
        /\ Last(runLog[i]).kind = "completed" /\ Last(runLog[i]).exit_status # 0
        /\ Last(runLog[j]).kind = "raise"
        /\ opened[i] = 1 /\ closes[i] = 1
        /\ opened[j] >= 1 /\ closes[j] = opened[j]

(* The exception that ended task i's last attempt, if it ended in one.     *)
LastFault(i) ==
    IF connLog[i] # <<>> /\ Last(connLog[i]).kind = "raise"
    THEN Some(Last(connLog[i]).exc)
    ELSE IF connLog[i] # <<>> /\ Len(runLog[i]) = opened[i] /\ runLog[i] # <<>>
            /\ Last(runLog[i]).kind = "raise"
         THEN Some(Last(runLog[i]).exc)
         ELSE None

(* C11: fault containment. No task ever ends by raising (run_on_host       *)
(* always returns, so gather never raises); a finished task whose last     *)
(* attempt raised an Exception carries exit_status = None, ok = false and  *)
(* error = "<exception kind>: <message>".                                  *)
C11_FaultContained ==
    \A i \in Tasks :
        /\ pc[i] # "cancelled"
        /\ (pc[i] = "done" /\ LastFault(i) # None) =>
              /\ result[i][1].exit_status = None
              /\ ~result[i][1].ok
              /\ result[i][1].stdout = "" /\ result[i][1].stderr = ""
              /\ result[i][1].error =
                    Some(LastFault(i)[1].name \o ": " \o LastFault(i)[1].msg)

(* one target ended on a non-transport fault of the run, another on a      *)
(* fault of connect, and the batch still returned                          *)
C11_Witness ==
    /\ returned
    /\ \E i, j \in Tasks :
          /\ result[i][1].error = Some("RuntimeError: fault")
          /\ result[j][1].error = Some("ValueError: bad")

(* C13: the list _run_all hands on is the tasks' Results one-to-one and in *)
(* inventory order, with progress streaming on or off.                     *)
C13_InventoryOrder ==
    returned =>
        /\ Len(results) = N
        /\ \A i \in 1..N : results[i] = result[i][1]

(* C15: every Result has ok = true exactly when its exit_status is 0; a    *)
(* Result with exit_status = None has ok = false.                          *)
C15_OkIffExitZero ==
    \A i \in Tasks :
        result[i] # None =>
            /\ result[i][1].ok <=> (result[i][1].exit_status = Some(0))
            /\ result[i][1].exit_status = None => ~result[i][1].ok

(* Results of all three kinds side by side: exit 0, exit 1, no exit status *)
C15_Witness ==
    \E i, j \in Tasks :
        /\ result[i] # None /\ result[j] # None
        /\ result[i][1].exit_status = Some(0) /\ result[i][1].ok
        /\ result[j][1].exit_status \in {Some(1), None} /\ ~result[j][1].ok

(* ------------------------- fair scheduling ----------------------------- *)
(* The event loop runs every ready task, and every connect, run, close and *)
(* backoff sleep eventually completes (or fails).                          *)
TaskFairness(i) ==
    /\ WF_vars(i \in Tasks /\ Start(i))
    /\ WF_vars(i \in Tasks /\ Resume(i))
    /\ WF_vars(i \in Tasks /\ \E o \in ConnectOutcomes : ConnectDone(i, o))
    /\ WF_vars(i \in Tasks /\ \E o \in RunOutcomes : RunDone(i, o))
    /\ WF_vars(i \in Tasks /\ CloseDone(i, [kind |-> "ok"]))
    /\ WF_vars(i \in Tasks /\ BackoffDone(i))

(* execute_on_hosts on batches with more hosts than slots: the ones in     *)
(* which tasks queue (closes succeed; what a close does never decides      *)
(* whether the slot is released).                                          *)
InitFair == Init /\ ~progress /\ N > limit

NextFair ==
    \/ \E i \in Tasks : Start(i)
    \/ \E i \in Tasks : Resume(i)
    \/ \E i \in Tasks : \E o \in ConnectOutcomes : ConnectDone(i, o)
    \/ \E i \in Tasks : \E o \in RunOutcomes : RunDone(i, o)
    \/ \E i \in Tasks : CloseDone(i, [kind |-> "ok"])
    \/ \E i \in Tasks : BackoffDone(i)
    \/ GatherReturn

FairSpec ==
    /\ InitFair
    /\ [][NextFair]_vars
    /\ \A i \in 1..MaxHosts : TaskFairness(i)
    /\ WF_vars(GatherReturn)

C12_ExitCode ==
    (~dry_run /\ exit_code # None) =>
        /\ exit_code[1] # 0 <=> \E k \in 1..Len(results) : ~results[k].ok
        /\ exit_code[1] = 0 <=> \A k \in 1..Len(results) : results[k].ok

(* a run has exited non-zero with one host ok and one host failed          *)
C12_Witness ==
    /\ ~dry_run
    /\ exit_code = Some(1)
    /\ \E j, k \in 1..Len(results) : results[j].ok /\ ~results[k].ok

(* C20: under --dry-run no task is created, no connection is attempted,    *)
(* nothing is written under --save-dir or to --log-file, and the exit code *)
(* is 0.                                                                   *)
C20_DryRunNoEffects ==
    dry_run =>
        /\ \A i \in Tasks : /\ pc[i] = "new"
                             /\ attempts[i] = 0
                             /\ connLog[i] = <<>>
                             /\ opened[i] = 0
        /\ saved = None
        /\ log_records = None
        /\ results = <<>>
        /\ exit_code \in {None, Some(0)}

(* a dry run asked for both --save-dir and --log-file, and has exited      *)
C20_Witness ==
    /\ dry_run
    /\ exit_code = Some(0)
    /\ out_opts = Some([save_dir |-> TRUE, log_file |-> TRUE])
    /\ N >= 2
(* C16: every Result has ended_at >= started_at, so its duration is >= 0,  *)
(* on the success path and on every failure path.                          *)
C16_DurationNonNegative ==
    /\ \A i \in Tasks :
          result[i] # None =>
              /\ result[i][1].ended_at >= result[i][1].started_at
              /\ Duration(result[i][1]) >= 0
    /\ \A k \in 1..Len(results) : Duration(results[k]) >= 0

(* time passed inside both a run that succeeded and one that failed        *)
C16_Witness ==
    \E i, j \in Tasks :
        /\ result[i] # None /\ result[i][1].ok /\ Duration(result[i][1]) > 0
        /\ result[j] # None /\ result[j][1].error # None
        /\ Duration(result[j][1]) > 0
(* The spec of the host the loop has just handled                          *)
Built == h # None /\ exit_code = None /\ host_specs # <<>>

(* C17: the host-key policy has no effect on the transport call: every     *)
(* connect call has known_hosts = None and is the call the same host spec  *)
(* makes under either policy value.                                        *)
C17_KnownHostsIgnored ==
    \A k \in 1..Len(connect_calls) :
        /\ connect_calls[k].known_hosts = None
        /\ \A policy \in {"strict", "off"} :
              connect_calls[k] =
                  ConnectKwargs(host_specs[k].host,
                                [host_specs[k].options EXCEPT !.known_hosts = policy])

(* a run with --known-hosts strict has made a connect call with a key and  *)
(* a password                                                              *)
C17_Witness ==
    /\ connect_calls # <<>>
    /\ host_specs[1].options.known_hosts = "strict"
    /\ "client_keys" \in DOMAIN connect_calls[1]
    /\ "password" \in DOMAIN connect_calls[1]

(* C18: the command of a host is its own inventory command when it has     *)
(* one (a non-empty one), otherwise the text of --command-file when there  *)
(* is one, otherwise the positional command; a lower-priority source is    *)
(* never used while a higher-priority one exists.                          *)
C18_CommandPrecedence ==
    Built =>
        LET e == h[1]
            command == Last(host_specs).command
        IN /\ Last(host_specs).host = e.host
           /\ TruthyStr(e.command) => command = e.command[1]
           /\ (~TruthyStr(e.command) /\ TruthyStr(cli.command_file)) =>
                  command = cli.command_file[1]
           /\ (~TruthyStr(e.command) /\ ~TruthyStr(cli.command_file)) =>
                  command = cli.command[1]

(* all three sources were there and the host's own command was taken, for  *)
(* the second host of the inventory                                        *)
C18_Witness ==
    /\ Built
    /\ Len(host_specs) = 2
    /\ h[1].command = Some("host-cmd")
    /\ cli.command_file = Some("file-cmd")
    /\ cli.command = Some("cli-cmd")
    /\ host_specs[2].command = "host-cmd"

C21_MissingCommandStopsRun ==
    /\ (h # None /\ ~TruthyStr(HostCommand(h[1], cli))) => exit_code = Some(2)
    /\ exit_code = Some(2) =>
          /\ connect_calls = <<>>
          /\ \A i \in Tasks : pc[i] = "new" /\ attempts[i] = 0

(* the second host has no command, the first one had its own               *)
C21_Witness ==
    /\ exit_code = Some(2)
    /\ Len(host_specs) = 1
    /\ host_specs[1].command = "host-cmd"
    /\ h[1].host = hosts[2]

(* C24: the command runs at most once per target: after a connection was   *)
(* established no later connection is attempted, however the run ends.     *)
C24_RunAtMostOnce ==
    \A i \in Tasks :
        /\ Len(runLog[i]) <= 1
        /\ opened[i] <= 1
        /\ opened[i] = 1 => attempts[i] = Len(connLog[i])

(* the connect outcomes of task i that are not transport errors            *)
NonTransient(i) ==
    {k \in 1..Len(connLog[i]) :
        /\ connLog[i][k].kind = "raise"
        /\ ~IsInstance(connLog[i][k].exc, {"Error", "OSError"})}

(* C25: a connection attempt that raises something other than a transport  *)
(* error is the target's last attempt: no backoff, no further attempt, and *)
(* a failed Result with exit_status = None.                                *)
C25_NonTransientStops ==
    \A i \in Tasks :
        NonTransient(i) # {} =>
            /\ NonTransient(i) = {Len(connLog[i])}
            /\ attempts[i] = Len(connLog[i])
            /\ pc[i] = "done"
            /\ ~result[i][1].ok
            /\ result[i][1].exit_status = None

(* a ValueError on the first of two allowed attempts                       *)
C25_Witness ==
    \E i \in Tasks :
        /\ retry_attempts >= 2
        /\ connLog[i] = <<[kind |-> "raise", exc |-> Exc("ValueError", "bad")]>>
        /\ pc[i] = "done"
        /\ attempts[i] = 1

(* C26: a target never makes more than retry_attempts connection attempts  *)
(* (for retry_attempts >= 1), and a target that has a Result made at least *)
(* one.                                                                    *)
C26_AttemptBudget ==
    \A i \in Tasks :
        /\ retry_attempts >= 1 => attempts[i] <= retry_attempts
        /\ attempts[i] = Len(connLog[i]) + (IF pc[i] = "connect" THEN 1 ELSE 0)
        /\ pc[i] = "done" => attempts[i] >= 1

(* a target that used up a budget of two attempts, and one that needed one *)
C26_Witness ==
    \E i, j \in Tasks :
        /\ retry_attempts = 2
        /\ pc[i] = "done" /\ attempts[i] = 2
        /\ pc[j] = "done" /\ attempts[j] = 1

(* connections of task i that are open or being established                *)
InFlight(i) == (opened[i] - closes[i]) + (IF pc[i] = "connect" THEN 1 ELSE 0)

(* C28: the attempts of a target are sequential: it has at most one        *)
(* connection open or being established, and while it waits for or makes   *)
(* a new attempt every connection it opened before is closed.              *)
C28_SequentialAttempts ==
    \A i \in Tasks :
        /\ InFlight(i) <= 1
        /\ pc[i] \in {"connect", "backoff"} => opened[i] = closes[i]
        /\ pc[i] = "connect" => Len(connLog[i]) = attempts[i] - 1

(* a second attempt under way after the first one's connection was closed  *)
C28_Witness ==
    \E i \in Tasks :
        /\ pc[i] = "connect"
        /\ attempts[i] = 2
        /\ opened[i] = 1 /\ closes[i] = 1

C29_CloseFailureIgnored ==
    \A i \in Tasks :
        ( /\ closeLog[i] # <<>>
          /\ Last(closeLog[i]).kind = "raise"
          /\ Len(runLog[i]) = Len(closeLog[i])
          /\ Last(runLog[i]).kind = "completed" )
            => /\ pc[i] = "done"
               /\ attempts[i] = Len(connLog[i])
               /\ Len(connLog[i]) = 1 + Raises(connLog[i])
                                      + Raises(SubSeq(runLog[i], 1, Len(runLog[i]) - 1))
               /\ result[i][1].error = None
               /\ result[i][1].exit_status = Some(Last(runLog[i]).exit_status)
               /\ result[i][1].ok = (Last(runLog[i]).exit_status = 0)
               /\ result[i][1].stdout = OrEmpty(Last(runLog[i]).stdout)
               /\ result[i][1].stderr = OrEmpty(Last(runLog[i]).stderr)

(* the command exited 0, the close raised, and a retry was still allowed   *)
C29_Witness ==
    \E i \in Tasks :
        /\ retry_attempts >= 2
        /\ pc[i] = "done"
        /\ attempts[i] = 1
        /\ closeLog[i] = <<[kind |-> "raise", exc |-> Exc("OSError", "close failed")]>>
        /\ result[i][1].ok /\ result[i][1].stdout = "out"

(* C27: the n-th wait of a target is min(5 s, 0.5 s * 2^(n-1)), in half    *)
(* seconds min(10, 2^(n-1)); a wait follows a failed attempt that is not   *)
(* the last one, and none is made before the first attempt, after the      *)
(* final attempt or after a successful connection.                         *)
C27_BackoffSchedule ==
    \A i \in Tasks :
        /\ \A n \in 1..Len(waits[i]) :
              waits[i][n] = (IF 2 ^ (n - 1) <= 10 THEN 2 ^ (n - 1) ELSE 10)
        /\ attempts[i] = 0 => waits[i] = <<>>
        /\ pc[i] = "backoff" => Len(waits[i]) = attempts[i]
        /\ pc[i] # "backoff" => Len(waits[i]) = Max(0, attempts[i] - 1)
        /\ pc[i] = "backoff" => Last(connLog[i]).kind = "raise"
        /\ opened[i] >= 1 => Len(waits[i]) = Len(connLog[i]) - 1

(* The task whose Result is the k-th element of `results`: completion      *)
(* order under --progress (cli.py:215-217), task order otherwise           *)
(* (cli.py:232).                                                           *)
TaskOf(k) == IF progress THEN order[k] ELSE k

(* C23: with --log-file on a run that is not a dry run, the log has one    *)
(* record per inventory host entry, and the command field of each record   *)
(* is the command that was run on the target whose Result the record       *)
(* describes.                                                              *)
C23_LogCommand ==
    log_records # None =>
        /\ Len(log_records[1]) = N
        /\ \A k \in 1..N :
              /\ log_records[1][k].host = hosts[TaskOf(k)]
              /\ log_records[1][k].command = Some(host_specs[TaskOf(k)].command)

(* The (username, password) keyword arguments of the asyncssh.connect      *)
(* calls of task i: each attempt calls _connect(host, options) with the    *)
(* same options (ssh.py:123, 81-92).                                       *)
AttemptCredentials(i) ==
    [n \in 1..Len(connLog[i]) |->
        LET kw == ConnectKwargs(hosts[i], host_specs[i].options)
        IN <<kw.username,
             IF "password" \in DOMAIN kw THEN Some(kw.password) ELSE None>>]

(* C22: credential candidates are tried in order across the connection     *)
(* attempts of run_on_host. With password candidates [p1, p2] and one      *)
(* username, the first attempt uses (username, p1) and, when it fails, the *)
(* next uses (username, p2); with an identity key and username candidates  *)
(* [u1, u2], the first attempts are key-only attempts for u1 then u2; no   *)
(* attempt follows a successful connection.                                *)
C22_CandidatesInOrder ==
    (opt_kwargs # None /\ (raised # None \/ result[1] # None)) =>
        LET kw == opt_kwargs
            att == AttemptCredentials(1)
            failed(n) == connLog[1][n].kind = "raise"
            hasP == "password_candidates" \in DOMAIN kw
            hasU == "username_candidates" \in DOMAIN kw
        IN /\ (hasP /\ ~hasU /\ kw.identity = None) =>
                 /\ Len(att) >= 1
                 /\ att[1] = <<kw.username, Some(kw.password_candidates[1])>>
                 /\ failed(1) =>
                       /\ Len(att) >= 2
                       /\ att[2] = <<kw.username, Some(kw.password_candidates[2])>>
           /\ (hasU /\ kw.identity # None) =>
                 /\ Len(att) >= 1
                 /\ att[1] = <<Some(kw.username_candidates[1]), None>>
                 /\ failed(1) =>
                       /\ Len(att) >= 2
                       /\ att[2] = <<Some(kw.username_candidates[2]), None>>
           /\ (hasP \/ hasU) => \A n \in 1..(Len(att) - 1) : failed(n)

(* C31: started_at is recorded before the task acquires the slot. A task   *)
(* queued on the semaphore already has its stamp, no later than the        *)
(* current time; acquiring the slot leaves the stamp alone; the Result     *)
(* carries that stamp, so the wait for a slot is part of its duration.     *)
C31_StartedBeforeAcquire ==
    /\ [](\A i \in Tasks :
            /\ pc[i] = "waiting" => started_at[i] <= now
            /\ result[i] # None => result[i][1].started_at = started_at[i])
    /\ [][\A i \in Tasks :
            acquired'[i] > acquired[i] =>
                started_at'[i] = IF pc[i] = "start" THEN now ELSE started_at[i]]_vars

(* a task that waited for a slot while time passed has its Result, whose   *)
(* duration is longer than the time it has held the slot                   *)
C31_Witness ==
    \E i, j \in Tasks :
        /\ i # j
        /\ result[i] # None /\ result[j] # None
        /\ order = <<i, j>>
        /\ limit = 1
        /\ result[j][1].started_at < result[i][1].ended_at
        /\ Duration(result[j][1]) > 0

(* the Result of task i has been constructed: it waits in the attempt body *)
(* for the finally block, or it is the task's result                       *)
Constructed(i) ==
    \/ result[i] # None
    \/ pending[i] # None /\ pending[i][1].kind = "return"

(* C32, as stated: ended_at is recorded and the Result is constructed only *)
(* after the target's connection has been closed and its limiter slot has  *)
(* been released, on the success path and on the failure path.             *)
C32_ResultAfterCloseAndRelease ==
    \A i \in Tasks :
        Constructed(i) => pc[i] # "closing" /\ released[i] = acquired[i]

(* C32, amended: the Result is constructed, and ended_at recorded, when    *)
(* the outcome is known and while the slot is still held. On the success   *)
(* path that is when the command completes, before the close has finished, *)
(* and the task's result is that very Result; on the failure path it is    *)
(* when the last exception reaches the handler, every connection the       *)
(* target opened having been closed.                                       *)
C32_ResultWhenOutcomeKnown ==
    /\ [](\A i \in Tasks :
            (pending[i] # None /\ pending[i][1].kind = "return") =>
                /\ pc[i] = "closing"
                /\ acquired[i] = 1 /\ released[i] = 0
                /\ runLog[i][Len(runLog[i])].kind = "completed"
                /\ pending[i][1].value.ended_at <= now)
    /\ [][\A i \in Tasks :
            /\ (pc[i] = "run" /\ pending'[i] # None /\ pending'[i][1].kind = "return")
                  => pending'[i][1].value.ended_at = now
            /\ (result[i] = None /\ result'[i] # None) =>
                  /\ released[i] = 0
                  /\ IF result'[i][1].error = None
                     THEN pc[i] = "closing" /\ result'[i] = Some(pending[i][1].value)
                     ELSE /\ result'[i][1].ended_at = now
                          /\ closes'[i] = opened'[i]
                          /\ pc[i] \in {"connect", "closing"}]_vars

(* a Result stamped before time passed while its connection was closing,   *)
(* next to a failure Result built after its connection was closed          *)
C32_Witness ==
    \E i, j \in Tasks :
        /\ pc[i] = "closing"
        /\ pending[i] # None /\ pending[i][1].kind = "return"
        /\ pending[i][1].value.ended_at < now
        /\ result[j] # None /\ result[j][1].error # None
        /\ opened[j] >= 1 /\ closes[j] = opened[j]

(* the task is between its first connection attempt and its last close     *)
Attempting(i) == pc[i] \in {"connect", "run", "closing", "backoff"}

(* C33: a target holds its slot from its first connection attempt until    *)
(* its last connection is closed, backoff waits included: the slot is      *)
(* acquired once and not released in between, the target's steps into and  *)
(* out of a backoff wait neither release nor acquire, and with limit = 1   *)
(* no other target is attempting while one is (in particular while it      *)
(* backs off).                                                             *)
C33_SlotHeldAcrossAttempts ==
    /\ [](\A i \in Tasks :
            /\ Attempting(i) => acquired[i] = 1 /\ released[i] = 0
            /\ acquired[i] <= 1
            /\ (limit = 1 /\ Attempting(i)) =>
                  \A j \in Tasks \ {i} : ~Attempting(j) /\ Len(connLog[j]) \in {0, attempts[j]})
    /\ [][\A i \in Tasks :
            (pc'[i] # pc[i] /\ (pc[i] = "backoff" \/ pc'[i] = "backoff")) =>
                /\ acquired'[i] = acquired[i]
                /\ released'[i] = released[i]
                /\ sem_value' = sem_value]_vars

(* one slot: a target backs off after a failed attempt while another       *)
(* target waits in the queue                                               *)
C33_Witness ==
    /\ limit = 1
    /\ \E i, j \in Tasks :
          /\ pc[i] = "backoff" /\ attempts[i] >= 1
          /\ pc[j] = "waiting"
          /\ sem_value = 0

(* what run_on_host keeps for task j: its position, attempt counter,       *)
(* connection, captured output, timestamps and Result                      *)
OwnState(j) ==
    <<pc[j], attempts[j], conn[j], opened[j], closes[j], pending[j],
      connLog[j], runLog[j], closeLog[j], waits[j], started_at[j],
      acquired[j], released[j], result[j]>>

(* C34: a step of one target's run_on_host (acquire, connect, run, close,  *)
(* backoff, Result) leaves what every other target keeps unchanged; what   *)
(* it may change outside its own target is the semaphore (counter, queue,  *)
(* futures of the waiters).                                                *)
C34_Frame ==
    [][\A i \in Tasks :
          pc'[i] # pc[i] => \A j \in Tasks \ {i} : OwnState(j)' = OwnState(j)]_vars

(* two targets are inside the body at once, one backing off after a failed *)
(* attempt, the other closing its connection with its Result built         *)
C34_Witness ==
    \E i, j \in Tasks :
        /\ i # j
        /\ pc[i] = "backoff" /\ attempts[i] = 1
        /\ pc[j] = "closing" /\ pending[j] # None /\ pending[j][1].kind = "return"
        /\ conn[i] = "none" /\ conn[j] = "closed"

(* The event loop runs every task that is ready, and every awaited         *)
(* connect, run, close and sleep completes or fails.                       *)
StepFairness(i) ==
    /\ WF_vars(i \in Tasks /\ Start(i))
    /\ WF_vars(i \in Tasks /\ Resume(i))
    /\ WF_vars(i \in Tasks /\ \E o \in ConnectOutcomes : ConnectDone(i, o))
    /\ WF_vars(i \in Tasks /\ \E o \in RunOutcomes : RunDone(i, o))
    /\ WF_vars(i \in Tasks /\ \E c \in CloseOutcomes : CloseDone(i, c))
    /\ WF_vars(i \in Tasks /\ BackoffDone(i))

(* Batches under fair scheduling: at most one host in either mode, or     *)
(* more hosts than slots collected by gather as execute_on_hosts does.     *)
InitTerm == Init /\ (N <= 1 \/ (N > limit /\ ~progress))

FairTermSpec ==
    /\ InitTerm
    /\ [][Next]_vars
    /\ \A i \in 1..MaxHosts : StepFairness(i)
    /\ WF_vars(GatherReturn)
    /\ WF_vars(ProgressNext)
    /\ WF_vars(ProgressReturn)

(* C35: termination. Under fair scheduling every target eventually has its *)
(* Result and the batch eventually returns; until it has returned, some    *)
(* step is always possible.                                                *)
C35_Termination ==
    /\ \A i \in 1..MaxHosts : <>(i \in Tasks => result[i] # None)
    /\ <>returned
    /\ [](~returned => ENABLED <<Next>>_vars)

(* a batch with more targets than slots has returned, one of its targets   *)
(* having retried and one having failed                                    *)
C35_Witness ==
    /\ returned
    /\ N > limit
    /\ \E i, j \in Tasks :
          /\ attempts[i] >= 2
          /\ result[j] # None /\ result[j][1].error # None

(* error is set exactly when there is no exit status; a Result with an     *)
(* error has empty output and is not ok                                    *)
ErrorIffNoStatus(r) ==
    /\ (r.error # None) <=> (r.exit_status = None)
    /\ r.error # None => r.stdout = "" /\ r.stderr = "" /\ ~r.ok

(* C36: in every Result of run_on_host the error field is set exactly when *)
(* exit_status is None; a Result built from an exception has an error and  *)
(* empty stdout and stderr, a Result built from a completed command has no *)
(* error, whatever its exit status.                                        *)
C36_ErrorIffNoExitStatus ==
    /\ \A i \in Tasks :
          /\ result[i] # None =>
                /\ ErrorIffNoStatus(result[i][1])
                /\ (result[i][1].error = None) <=>
                      (runLog[i] # <<>> /\ runLog[i][Len(runLog[i])].kind = "completed")
          /\ (pending[i] # None /\ pending[i][1].kind = "return") =>
                ErrorIffNoStatus(pending[i][1].value)
    /\ \A k \in 1..Len(results) : ErrorIffNoStatus(results[k])

(* a command that exited with a non-zero status next to a target that      *)
(* failed with an exception                                                *)
C36_Witness ==
    \E i, j \in Tasks :
        /\ result[i] # None /\ result[i][1].exit_status = Some(1)
        /\ result[i][1].error = None /\ ~result[i][1].ok
        /\ result[j] # None /\ result[j][1].error # None
        /\ result[j][1].exit_status = None

(* C37: inventory defaults are applied to every host unless overridden.    *)
(* For each of username, port, identity, password, connect_timeout,        *)
(* known_hosts and pty: when the host entry has no value and the option    *)
(* was not given on the command line, the host's ExecOptions carry the     *)
(* value of the inventory's defaults.                                      *)
C37_DefaultsApplied ==
    Built =>
        LET e == h[1]
            o == Last(host_specs).options
            free(f) == f \notin cli.given
        IN /\ (~TruthyStr(e.username) /\ free("username")) => o.username = defaults.username
           /\ (~TruthyInt(e.port) /\ free("port")) => o.port = Some(defaults.port)
           /\ (~TruthyStr(e.identity) /\ free("identity")) =>
                 o.identity = IF defaults.identity = None THEN None
                              ELSE Some(ExpandPath(defaults.identity[1]))
           /\ ~TruthyStr(e.password) => o.password = defaults.password
           /\ free("connect_timeout") => o.connect_timeout = defaults.connect_timeout
           /\ free("known_hosts") => o.known_hosts = defaults.known_hosts
           /\ free("pty") => o.pty = defaults.pty

(* C38: with --save-dir, after the run the stdout and stderr of every      *)
(* Result can be read back from the files named after its sanitized host:  *)
(* the .stdout.txt file holds exactly r.stdout and the .stderr.txt file    *)
(* exactly r.stderr, the sanitized name being the host with every          *)
(* character other than alphanumerics, '-', '_' and '.' replaced by '_'.   *)
C38_ReadBack ==
    saved # None =>
        LET files == SavedFiles(saved[1])
            path(r, stream) == <<Sanitize(r.host), ".", stream, ".txt">>
        IN \A k \in 1..Len(results) :
              LET r == results[k]
              IN /\ Len(Sanitize(r.host)) = Len(r.host)
                 /\ \A c \in 1..Len(r.host) :
                       Sanitize(r.host)[c] =
                           IF r.host[c] \in {"/", ":", " ", "@"} THEN "_" ELSE r.host[c]
                 /\ path(r, "stdout") \in DOMAIN files
                 /\ path(r, "stderr") \in DOMAIN files
                 /\ files[path(r, "stdout")] = r.stdout
                 /\ files[path(r, "stderr")] = r.stderr

(* C39: the attempt budget is at least one. With retry_attempts <= 0 a     *)
(* target makes exactly one connection attempt, never zero and never a     *)
(* second one, and it still ends with a Result, which is in the returned   *)
(* list.                                                                   *)
C39_AtLeastOneAttempt ==
    retry_attempts <= 0 =>
        /\ \A i \in Tasks :
              /\ attempts[i] <= 1 /\ Len(connLog[i]) <= 1
              /\ pc[i] # "backoff" /\ waits[i] = <<>>
              /\ pc[i] \in {"run", "closing", "done"} =>
                    attempts[i] = 1 /\ Len(connLog[i]) = 1
              /\ pc[i] = "done" <=> result[i] # None
              /\ pc[i] # "cancelled"
        /\ returned => Len(results) = N

(* with a negative budget, one target failed at its only attempt with a    *)
(* retryable error and another ran its command                             *)
C39_Witness ==
    /\ retry_attempts < 0
    /\ returned
    /\ \E i, j \in Tasks :
          /\ attempts[i] = 1 /\ connLog[i] = <<[kind |-> "raise", exc |-> Exc("OSError", "boom")]>>
          /\ result[i] # None /\ result[i][1].error # None
          /\ attempts[j] = 1 /\ result[j] # None /\ result[j][1].exit_status # None


====
